---- MODULE Spec2Model ----
(***************************************************************************)
(* A model of the ASCII wireframe renderers of the repository: the square  *)
(* (AsciiSquare), the cube (AsciiCube), the tesseract (AsciiTessarect),    *)
(* the point-cloud AsciiTesseract whose rotation rewrites its points, and  *)
(* the topology that ThreeTesseract builds.                                *)
(*                                                                         *)
(* Numbers.  TLC has 32-bit integers only.  The JavaScript numbers that    *)
(* drawLine and chooseASCII compute are IEEE-754 binary64 values; they are *)
(* modelled exactly as triples <<ip, fh, fl>> standing for                 *)
(*     ip + (fh * 2^30 + fl) / 2^60,   0 <= fh, fl < 2^30,                 *)
(* and every addition, subtraction, division and multiplication of the     *)
(* code is followed by the rounding to 53 significant bits (to nearest,    *)
(* ties to even) that the hardware performs.  All values that occur are    *)
(* multiples of 2^-60 as long as a line is at most 128 steps long or its   *)
(* gradient is 0 or +-1.                                                   *)
(***************************************************************************)
EXTENDS Integers, Sequences, FiniteSets, TLC

VARIABLES
    angle,          \* AsciiSquare.angle, in degrees
    screenArray,    \* AsciiSquare.screenArray
    updated,        \* AsciiSquare: the first update (willUpdate/firstUpdated) has run
    ticks,          \* number of interval callbacks run so far (capped by MaxTicks)
    tessAngle,      \* AsciiTesseract (point cloud).angle
    points,         \* AsciiTesseract (point cloud).points
    tessScreen,     \* AsciiTesseract (point cloud).screenArray
    tessUpdated,    \* AsciiTesseract (point cloud): the first update has run
    lineArgs,       \* the arguments <<x0, y0, x1, y1>> of a drawLine call
    lineSeed,       \* the stream of Math.random() values used when plotting
    linePoints,     \* the PointInfo[] drawLine returned (<<>> before the call)
    lineScreen,     \* the screen after the samples were written (blank before)
    linePhase,      \* "args" -> "drawn" -> "plotted"
    brightness,     \* the argument of a chooseASCII call
    random,         \* the value Math.random() returns in that call, in 1/RandomLevels
    glyph,          \* what chooseASCII returned, as <<c>> (<<>> before the call)
    shape,          \* the component whose shape definition is read
    edgeNo,         \* the position in its edge list that is read
    otherNo,        \* a second position in its edge list
    edgeEnds,       \* the vertices the two edges join (<<>> before the read)
    mounted,        \* the element on the page: "ascii-square" or "ascii-tesseract"
    outlineAngle,   \* AsciiTesseract (ascii-tesseract.ts).angle
    outlineScreen,  \* AsciiTesseract (ascii-tesseract.ts).screenArray
    outlineUpdated, \* AsciiTesseract (ascii-tesseract.ts): the first update has run
    angleX,         \* AsciiCube.angleX, in degrees
    angleY,         \* AsciiCube.angleY, in degrees
    cubeScreen,     \* AsciiCube.screenArray
    cubeUpdated,    \* AsciiCube: the first update has run
    angleXY,        \* AsciiTessarect.angleXY, in half degrees
    angleYZ,        \* AsciiTessarect.angleYZ, in half degrees
    angleZW,        \* AsciiTessarect.angleZW, in half degrees
    angleWX,        \* AsciiTessarect.angleWX, in half degrees
    tessarectEdges, \* AsciiTessarect.EDGES
    tessarectScreen,\* AsciiTessarect.screenArray
    tessarectPhase, \* AsciiTessarect: "constructed", "updated" or "threw"
    pipeShape,      \* the class whose calculateRotation / projectTo2D is applied
    pipeAngles,     \* its angles, in half degrees
    pipeStage,      \* how many of the maps of the two functions have run
    pipePrev,       \* the point list before the last map
    pipePoints,     \* the point list after the last map
    rainConnected,  \* IntroMatrixRain is connected to the document
    matrixDrops,    \* IntroMatrixRain.matrixDrops
    spawnTimerId,   \* IntroMatrixRain.spawnTimerId (Undefined when not set)
    dropIdSeed,     \* IntroMatrixRain.dropIdSeed
    cleanupTimers,  \* IntroMatrixRain.cleanupTimers: drop id -> timer handle
    changeTimers,   \* IntroMatrixRain.changeTimers: drop id -> timer handle
    timers,         \* the pending timeouts of the window
    timerSeed,      \* the last handle window.setTimeout returned
    rainConnects,   \* how often IntroMatrixRain was connected
    mainConnected,  \* <main-app> is connected to the document
    animation,      \* Main.animation: "none" before firstUpdated, then "started"
    phase,          \* MatrixRainAnimation.phase
    running,        \* MatrixRainAnimation.running
    rafPending,     \* the frame requested under MatrixRainAnimation.rafId is pending
    frames,         \* how many frames tick() has drawn
    tweens,         \* the live gsap tweens and delayed calls of the animation
    tlTime,         \* how many of the timeline's callbacks are in its past
    onDoneCalls,    \* how often onDone was invoked
    ringConnected,  \* <root-app> is connected to the document
    ringUpdated,    \* App.firstUpdated() has run
    introPhase,     \* App.phase
    typedMessage,   \* App.typedMessage, a sequence of characters
    backgroundReady,    \* App.backgroundReady
    masterTimeline, \* App.masterTimeline: "undefined" or "live"
    masterTime,     \* how many steps of the master timeline are in its past
    sweepAngle,     \* App.sweepAngle
    pulseLevel,     \* App.pulseLevel in units of 1 / pulse.count
    ringFillVisible,    \* App.ringFillVisible
    pulseParticles, \* the ids in App.pulseParticles
    particleCleanupCalls,   \* the keys of App.particleCleanupCalls
    particleIdSeed  \* App.particleIdSeed

vars == <<angle, screenArray, updated, ticks, tessAngle, points, tessScreen,
          tessUpdated, lineArgs, lineSeed, linePoints, lineScreen, linePhase,
          brightness, random, glyph, shape, edgeNo, otherNo, edgeEnds,
          mounted, outlineAngle, outlineScreen, outlineUpdated,
          angleX, angleY, cubeScreen, cubeUpdated,
          angleXY, angleYZ, angleZW, angleWX,
          tessarectEdges, tessarectScreen, tessarectPhase,
          pipeShape, pipeAngles, pipeStage, pipePrev, pipePoints,
          rainConnected, matrixDrops, spawnTimerId, dropIdSeed, cleanupTimers,
          changeTimers, timers, timerSeed, rainConnects,
          mainConnected, animation, phase, running, rafPending, frames,
          tweens, tlTime, onDoneCalls,
          ringConnected, ringUpdated, introPhase, typedMessage, backgroundReady,
          masterTimeline, masterTime, sweepAngle, pulseLevel, ringFillVisible,
          pulseParticles, particleCleanupCalls, particleIdSeed>>

squareVars == <<angle, screenArray, updated, ticks>>
cloudVars  == <<tessAngle, points, tessScreen, tessUpdated>>
lineVars   == <<lineArgs, lineSeed, linePoints, lineScreen, linePhase>>
glyphVars  == <<brightness, random, glyph>>
shapeVars  == <<shape, edgeNo, otherNo, edgeEnds>>
outlineVars == <<mounted, outlineAngle, outlineScreen, outlineUpdated>>

cubeVars == <<angleX, angleY, cubeScreen, cubeUpdated>>
tessarectAngles == <<angleXY, angleYZ, angleZW, angleWX>>
tessarectVars == <<tessarectAngles, tessarectEdges, tessarectScreen, tessarectPhase>>

pipeVars == <<pipeShape, pipeAngles, pipeStage, pipePrev, pipePoints>>

\* the variables of the components modelled further below
rainVars == <<rainConnected, matrixDrops, spawnTimerId, dropIdSeed, cleanupTimers,
              changeTimers, timers, timerSeed, rainConnects>>
matrixVars == <<mainConnected, animation, phase, running, rafPending, frames,
                tweens, tlTime, onDoneCalls>>
ringVars == <<ringConnected, ringUpdated, introPhase, typedMessage,
              backgroundReady, masterTimeline, masterTime, sweepAngle, pulseLevel,
              ringFillVisible, pulseParticles, particleCleanupCalls,
              particleIdSeed>>
sceneVars == <<matrixVars, ringVars>>
introVars == <<rainVars, sceneVars>>

otherVars == <<outlineVars, cubeVars, tessarectVars, pipeVars, introVars>>

(***************************************************************************)
(* Bounds of the model.                                                    *)
(***************************************************************************)
MaxTicks == 73        \* interval callbacks of AsciiSquare that are modelled
MaxCloudTicks == 110  \* interval callbacks of the point-cloud AsciiTesseract
MaxTessarectTicks == 4 \* interval callbacks of AsciiTessarect
MaxDriverSteps == 25 \* the tesseract angles after 4 * k callbacks, k up to this
MaxDrops == 2         \* drops IntroMatrixRain spawns
MaxConnects == 2      \* times IntroMatrixRain is connected to the document
MaxSeed == 2          \* Math.random() streams 0..MaxSeed per frame
RandomLevels == 7     \* Math.random() returns k / RandomLevels, k < RandomLevels
MaxDelta == 3         \* |x1 - x0|, |y1 - y0| of the enumerated drawLine calls
MaxStart == 1         \* offsets 0..MaxStart added to the anchors of those calls
BrightnessSteps == 72 \* brightness arguments k / BrightnessSteps of chooseASCII

(***************************************************************************)
(* IEEE-754 binary64 arithmetic on <<ip, fh, fl>>.                         *)
(***************************************************************************)
Limb == 2^30
HalfLimb == 2^15

RECURSIVE BitLen(_)
BitLen(n) == IF n = 0 THEN 0 ELSE 1 + BitLen(n \div 2)

\* carries propagated so that 0 <= fh, fl < 2^30
Norm(ip, fh, fl) ==
    LET c1 == fl \div Limb
        h  == fh + c1
    IN  <<ip + (h \div Limb), h % Limb, fl % Limb>>

DInt(n) == <<n, 0, 0>>

\* exact sum, exact negation
DAddExact(a, b) == Norm(a[1] + b[1], a[2] + b[2], a[3] + b[3])
DNeg(a) == Norm(-a[1], -a[2], -a[3])

\* a magnitude (ip >= 0) rounded to 53 significant bits, ties to even;
\* sticky: the exact value lies strictly above the triple
RoundMag(m, sticky) ==
    LET total == IF m[1] > 0 THEN 60 + BitLen(m[1])
                 ELSE IF m[2] > 0 THEN 30 + BitLen(m[2])
                 ELSE BitLen(m[3])
        d == total - 53
    IN  IF d <= 0 THEN m
        ELSE LET q    == 2^d
                 r    == m[3] % q
                 down == m[3] - r
                 up   == \/ 2 * r > q
                         \/ 2 * r = q /\ (sticky \/ (down \div q) % 2 = 1)
             IN  Norm(m[1], m[2], down + (IF up THEN q ELSE 0))

RoundD(v) == IF v[1] >= 0 THEN RoundMag(v, FALSE)
             ELSE DNeg(RoundMag(DNeg(v), FALSE))

\* a + b, a - b as the hardware computes them
DAdd(a, b) == RoundD(DAddExact(a, b))
DSub(a, b) == RoundD(DAddExact(a, DNeg(b)))

\* b * k for a small natural k, exact
RECURSIVE DTimesExact(_, _)
DTimesExact(b, k) ==
    IF k = 0 THEN DInt(0)
    ELSE LET h == DTimesExact(b, k \div 2)
             t == DAddExact(h, h)
         IN  IF k % 2 = 1 THEN DAddExact(t, b) ELSE t

\* b * k as the hardware computes it (b >= 0)
DTimes(b, k) == RoundD(DTimesExact(b, k))

\* n / d for integers with 0 <= n <= d, 0 < d < 2^16: long division in four
\* steps of 15 bits, then the rounding
DDivMag(n, d) ==
    LET r0 == n % d
        c1 == (r0 * HalfLimb) \div d
        r1 == (r0 * HalfLimb) % d
        c2 == (r1 * HalfLimb) \div d
        r2 == (r1 * HalfLimb) % d
        c3 == (r2 * HalfLimb) \div d
        r3 == (r2 * HalfLimb) % d
        c4 == (r3 * HalfLimb) \div d
        r4 == (r3 * HalfLimb) % d
    IN  RoundMag(<<n \div d, c1 * HalfLimb + c2, c3 * HalfLimb + c4>>, r4 # 0)

\* dy / dx of drawLine (dx > 0, |dy| <= dx)
DDiv(dy, dx) == IF dy >= 0 THEN DDivMag(dy, dx) ELSE DNeg(DDivMag(-dy, dx))

DFloor(v) == v[1]
DOne == DInt(1)
DZero == DInt(0)

(***************************************************************************)
(* Math.sin, Math.cos and Math.round.  The drivers only supply multiples   *)
(* of 5 degrees; sin and cos of those are tabulated in millionths.  Where  *)
(* the exact value is +-1/2 the binary64 result is off by one unit in the  *)
(* last place; SinDev and CosDev record the sign of that deviation, which  *)
(* decides Math.round when x * cos - y * sin falls on k + 1/2.             *)
(***************************************************************************)
TrigScale == 10^6

SinTable == <<0, 87156, 173648, 258819, 342020, 422618, 500000, 573576,
              642788, 707107, 766044, 819152, 866025, 906308, 939693,
              965926, 984808, 996195, 1000000>>

SinMicro(a) ==
    LET r == a % 360
    IN  IF r <= 90 THEN SinTable[(r \div 5) + 1]
        ELSE IF r <= 180 THEN SinTable[((180 - r) \div 5) + 1]
        ELSE IF r <= 270 THEN -SinTable[((r - 180) \div 5) + 1]
        ELSE -SinTable[((360 - r) \div 5) + 1]

CosMicro(a) == SinMicro(a + 90)

\* sign of (binary64 result - exact value) at the angles whose sine is +-1/2
SinDev(a) == IF a % 360 \in {30, 150, 210, 330} THEN -1 ELSE 0
\* ... and whose cosine is +-1/2
CosDev(a) == IF a % 360 \in {60, 120, 300} THEN 1
             ELSE IF a % 360 = 240 THEN -1 ELSE 0

Abs(n) == IF n < 0 THEN -n ELSE n

\* Math.round of v / TrigScale + dev * (something tiny): floor(v + 0.5)
JsRound(v, dev) ==
    LET h == v + (TrigScale \div 2)
    IN  IF h % TrigScale = 0 /\ dev < 0 THEN (h \div TrigScale) - 1
        ELSE h \div TrigScale

\* [Math.round(x * cosA - y * sinA), Math.round(x * sinA + y * cosA)]
Rotate2D(p, a) ==
    <<JsRound(p[1] * CosMicro(a) - p[2] * SinMicro(a),
              p[1] * CosDev(a) - p[2] * SinDev(a)),
      JsRound(p[1] * SinMicro(a) + p[2] * CosMicro(a),
              p[1] * SinDev(a) + p[2] * CosDev(a))>>

(***************************************************************************)
(* AsciiSquare                                                             *)
(***************************************************************************)
SIZE == 21
HALFSIZE == SIZE \div 2
CANVAS_SIZE == 41
HALFCANVAS == CANVAS_SIZE \div 2

\* the character ' ' that createNewScreen fills the screen with
Blank == 32

\* what a function returns as undefined, and the TypeError it throws
Undefined == -1
TypeError == -2

createNewScreen ==
    [y \in 0..(CANVAS_SIZE - 1) |-> [x \in 0..(CANVAS_SIZE - 1) |-> Blank]]

basePoints == << <<-HALFSIZE, -HALFSIZE>>, <<HALFSIZE, -HALFSIZE>>,
                 <<HALFSIZE, HALFSIZE>>, <<-HALFSIZE, HALFSIZE>> >>

calculateRotation(a) == [i \in 1..Len(basePoints) |-> Rotate2D(basePoints[i], a)]

\* TRUE; evaluating it makes TLC compute v before going on, which keeps
\* the evaluation of the loops below shallow
Evaluated(v) == DOMAIN v = DOMAIN v

\* exactY after n more executions of `exactY += grad`
RECURSIVE Advance(_, _, _)
Advance(exactY, grad, n) ==
    IF n = 0 \/ ~Evaluated(exactY) THEN exactY
    ELSE IF n = 1 THEN DAdd(exactY, grad)
    ELSE Advance(Advance(exactY, grad, n \div 2), grad, n - (n \div 2))

\* the same iteration with the two brightness values exchanged
LineStepSwapped(x, exactY, isSteep) ==
    LET y    == DFloor(exactY)
        diff == DSub(exactY, DInt(y))
    IN  << <<IF isSteep THEN y ELSE x, IF isSteep THEN x ELSE y, diff>>,
           <<IF isSteep THEN y + 1 ELSE x, IF isSteep THEN x ELSE y + 1,
             DSub(DOne, diff)>> >>

\* the two samples pushed by the iteration of drawLine's loop at x
LineStep(x, exactY, isSteep) ==
    LET y    == DFloor(exactY)
        diff == DSub(exactY, DInt(y))
    IN  << <<IF isSteep THEN y ELSE x, IF isSteep THEN x ELSE y,
             DSub(DOne, diff)>>,
           <<IF isSteep THEN y + 1 ELSE x, IF isSteep THEN x ELSE y + 1,
             diff>> >>

\* the samples pushed by the n iterations of drawLine's loop from x on,
\* exactY being the binary64 accumulator on entry (split in halves, which
\* keeps the evaluation shallow)
RECURSIVE LineLoop(_, _, _, _, _)
LineLoop(x, n, exactY, grad, isSteep) ==
    IF n = 1 \/ ~Evaluated(exactY) THEN LineStep(x, exactY, isSteep)
    ELSE LET h == n \div 2
         IN  LineLoop(x, h, exactY, grad, isSteep)
             \o LineLoop(x + h, n - h, Advance(exactY, grad, h), grad, isSteep)

\* drawLine with the loop condition x < x1 in place of x <= x1
drawLineExclusive(x0, y0, x1, y1) ==
    LET isSteep == Abs(y1 - y0) > Abs(x1 - x0)
        a0 == IF isSteep THEN y0 ELSE x0
        b0 == IF isSteep THEN x0 ELSE y0
        a1 == IF isSteep THEN y1 ELSE x1
        b1 == IF isSteep THEN x1 ELSE y1
        xs == IF a0 > a1 THEN a1 ELSE a0
        ys == IF a0 > a1 THEN b1 ELSE b0
        xe == IF a0 > a1 THEN a0 ELSE a1
        ye == IF a0 > a1 THEN b0 ELSE b1
        dx == xe - xs
        dy == ye - ys
    IN  IF dx = 0 THEN <<>>
        ELSE LineLoop(xs, dx, DInt(ys), DDiv(dy, dx), isSteep)

\* drawLine without the exchange of the end points when x0 > x1: the loop
\* `for (x = x0; x <= x1; x++)` has no iteration then
drawLineUnordered(x0, y0, x1, y1) ==
    LET isSteep == Abs(y1 - y0) > Abs(x1 - x0)
        a0 == IF isSteep THEN y0 ELSE x0
        b0 == IF isSteep THEN x0 ELSE y0
        a1 == IF isSteep THEN y1 ELSE x1
        b1 == IF isSteep THEN x1 ELSE y1
        dx == a1 - a0
        dy == b1 - b0
        grad == IF dx = 0 THEN DZero ELSE DDiv(dy, dx)
    IN  IF dx < 0 THEN <<>> ELSE LineLoop(a0, dx + 1, DInt(b0), grad, isSteep)

\* drawLine(x0, y0, x1, y1): the PointInfo[] it returns.  With dx = 0 the
\* gradient is NaN, which the single iteration never reads.
drawLine(x0, y0, x1, y1) ==
    LET isSteep == Abs(y1 - y0) > Abs(x1 - x0)
        a0 == IF isSteep THEN y0 ELSE x0
        b0 == IF isSteep THEN x0 ELSE y0
        a1 == IF isSteep THEN y1 ELSE x1
        b1 == IF isSteep THEN x1 ELSE y1
        xs == IF a0 > a1 THEN a1 ELSE a0
        ys == IF a0 > a1 THEN b1 ELSE b0
        xe == IF a0 > a1 THEN a0 ELSE a1
        ye == IF a0 > a1 THEN b0 ELSE b1
        dx == xe - xs
        dy == ye - ys
        grad == IF dx = 0 THEN DZero ELSE DDiv(dy, dx)
    IN  LineLoop(xs, dx + 1, DInt(ys), grad, isSteep)

\* the ten strings of DENSITY, each a sequence of UTF-16 code units:
\*   space . ' backtick ^ " ,   then  :;Il!i>  <~+_-?]  [}{1)(|  \/tfjrx
\*   nuvczXY  UJCLQ0O  Zmwqpdb  khao*#M  W&8%B@$
DENSITY ==
    << <<32, 46, 39, 96, 94, 34, 44>>,
       <<58, 59, 73, 108, 33, 105, 62>>,
       <<60, 126, 43, 95, 45, 63, 93>>,
       <<91, 125, 123, 49, 41, 40, 124>>,
       <<92, 47, 116, 102, 106, 114, 120>>,
       <<110, 117, 118, 99, 122, 88, 89>>,
       <<85, 74, 67, 76, 81, 48, 79>>,
       <<90, 109, 119, 113, 112, 100, 98>>,
       <<107, 104, 97, 111, 42, 35, 77>>,
       <<87, 38, 56, 37, 66, 64, 36>> >>

\* Math.floor(brightness * (DENSITY.length - 1))
BandIndex(b) == DFloor(DTimes(b, Len(DENSITY) - 1))

\* chooseASCII with the random index applied to DENSITY, not to the band
chooseASCIIRandomBand(b, u) ==
    LET ASCIIs == DENSITY[((u * Len(DENSITY)) \div RandomLevels) + 1]
        k == (u * Len(ASCIIs)) \div RandomLevels
    IN  ASCIIs[k + 1]

\* chooseASCII with Math.floor(brightness * DENSITY.length) as band index
chooseASCIIFullLength(b, u) ==
    LET band == DFloor(DTimes(b, Len(DENSITY)))
    IN  IF band + 1 \notin DOMAIN DENSITY THEN TypeError
        ELSE LET ASCIIs == DENSITY[band + 1]
                 k == (u * Len(ASCIIs)) \div RandomLevels
             IN  IF k + 1 \in DOMAIN ASCIIs THEN ASCIIs[k + 1] ELSE Undefined

\* chooseASCII with that index wrapped: ... % DENSITY.length
chooseASCIIWrapped(b, u) ==
    LET ASCIIs == DENSITY[(DFloor(DTimes(b, Len(DENSITY))) % Len(DENSITY)) + 1]
        k == (u * Len(ASCIIs)) \div RandomLevels
    IN  ASCIIs[k + 1]

\* chooseASCII(brightness) when Math.random() returns u / RandomLevels.
\* DENSITY[i] undefined makes ASCIIs[...] throw a TypeError; an index past
\* the end of the string yields undefined.
chooseASCII(b, u) ==
    LET band == BandIndex(b)
    IN  IF band + 1 \notin DOMAIN DENSITY THEN TypeError
        ELSE LET ASCIIs == DENSITY[band + 1]
                 k == (u * Len(ASCIIs)) \div RandomLevels
             IN  IF k + 1 \in DOMAIN ASCIIs THEN ASCIIs[k + 1] ELSE Undefined

\* the value of the n-th call of Math.random() in a frame, in 1/RandomLevels
MathRandom(seed, n) == (seed + n) % RandomLevels

\* the write with row and column exchanged, screenArray[x][y] = c
StoreTransposed(screen, y, x, c) ==
    IF x \notin DOMAIN screen THEN screen
    ELSE [screen EXCEPT ![x] =
             [k \in (DOMAIN screen[x]) \cup {y} |-> IF k = y THEN c ELSE screen[x][k]]]

\* newScreen[y][x] = c as JavaScript performs it: an index past the end of
\* the row makes the row grow; with a missing row the assignment throws and
\* nothing is written
Store(screen, y, x, c) ==
    IF y \notin DOMAIN screen THEN screen
    ELSE [screen EXCEPT ![y] =
             [k \in (DOMAIN screen[y]) \cup {x} |-> IF k = x THEN c ELSE screen[y][k]]]

\* .map(([x, y, brightness]) => [x + HALFCANVAS, y + HALFCANVAS, brightness])
Shifted(samples) ==
    [i \in 1..Len(samples) |->
        <<samples[i][1] + HALFCANVAS, samples[i][2] + HALFCANVAS, samples[i][3]>>]

\* the test with <= CANVAS_SIZE in place of < CANVAS_SIZE
InCanvasInclusive(s) ==
    s[1] >= 0 /\ s[1] <= CANVAS_SIZE /\ s[2] >= 0 /\ s[2] <= CANVAS_SIZE

\* the test of .filter(...)
InCanvas(s) == s[1] >= 0 /\ s[1] < CANVAS_SIZE /\ s[2] >= 0 /\ s[2] < CANVAS_SIZE

Retained(samples) == SelectSeq(Shifted(samples), InCanvas)

\* .forEach(([x, y, brightness]) => newScreen[y][x] = chooseASCII(brightness))
\* over kept[lo..hi]; the k-th element makes the k-th call of Math.random()
RECURSIVE ForEachWrite(_, _, _, _, _)
ForEachWrite(screen, kept, lo, hi, seed) ==
    IF lo > hi \/ ~Evaluated(screen) THEN screen
    ELSE IF lo = hi
    THEN Store(screen, kept[lo][2], kept[lo][1],
               chooseASCII(kept[lo][3], MathRandom(seed, lo - 1)))
    ELSE LET mid == (lo + hi) \div 2
         IN  ForEachWrite(ForEachWrite(screen, kept, lo, mid, seed),
                          kept, mid + 1, hi, seed)

\* the writes made in the opposite order, which lets the first sample of a
\* cell win
WriteSamplesFirstWins(samples, seed) ==
    LET kept == Retained(samples)
        back == [i \in 1..Len(kept) |-> kept[Len(kept) + 1 - i]]
    IN  ForEachWrite(createNewScreen, back, 1, Len(back), seed)

\* lines 100-105 of drawFrame: the screen after the samples were written
WriteSamples(samples, seed) ==
    LET kept == Retained(samples)
    IN  ForEachWrite(createNewScreen, kept, 1, Len(kept), seed)

\* rotatedPoints.flatMap((point, index) => drawLine(...point, ...nextPoint))
RECURSIVE OutlineSamples(_, _)
OutlineSamples(pts, i) ==
    IF i > Len(pts) THEN <<>>
    ELSE LET q == pts[(i % Len(pts)) + 1]
         IN  drawLine(pts[i][1], pts[i][2], q[1], q[2]) \o OutlineSamples(pts, i + 1)

VertexSamples(pts) == [i \in 1..Len(pts) |-> <<pts[i][1], pts[i][2], DOne>>]

\* the samples drawFrame collects in `edges`
FrameSamples(a) ==
    LET rotatedPoints == calculateRotation(a)
    IN  OutlineSamples(rotatedPoints, 1) \o VertexSamples(rotatedPoints)

\* drawFrame(): the screen it assigns to this.screenArray
drawFrame(a, seed) == WriteSamples(FrameSamples(a), seed)

(***************************************************************************)
(* AsciiTesseract, the point cloud: the outline of a square as a list of   *)
(* points, which calculateRotation rotates in place                        *)
(***************************************************************************)
AsciiTesseract_SIZE == 21
AsciiTesseract_HALFSIZE == AsciiTesseract_SIZE \div 2
AsciiTesseract_CANVAS_SIZE == 41
AsciiTesseract_HALFCANVAS == AsciiTesseract_CANVAS_SIZE \div 2

\* the character '#' that drawPoints writes
Hash == 35

\* the test of the .filter(...) that builds `points`
OnPerimeter(p) ==
    \/ p[1] = -AsciiTesseract_HALFSIZE \/ p[1] = AsciiTesseract_HALFSIZE
    \/ p[2] = -AsciiTesseract_HALFSIZE \/ p[2] = AsciiTesseract_HALFSIZE

\* the initial value of `points`
InitialPoints ==
    SelectSeq([i \in 1..(AsciiTesseract_SIZE * AsciiTesseract_SIZE) |->
                  <<((i - 1) \div AsciiTesseract_SIZE) - AsciiTesseract_HALFSIZE,
                    ((i - 1) % AsciiTesseract_SIZE) - AsciiTesseract_HALFSIZE>>],
              OnPerimeter)

\* calculateRotation(): the value it assigns to this.points
RotatedPoints(pts, a) == [i \in 1..Len(pts) |-> Rotate2D(pts[i], a)]

\* drawPoints(): the screen it leaves in this.screenArray; every retained
\* point lies inside the screen, so no row grows
drawPoints(pts) ==
    LET N == AsciiTesseract_CANVAS_SIZE
        shifted == [i \in 1..Len(pts) |-> <<pts[i][1] + AsciiTesseract_HALFCANVAS,
                                            pts[i][2] + AsciiTesseract_HALFCANVAS>>]
        inside(q) == q[1] >= 0 /\ q[1] < N /\ q[2] >= 0 /\ q[2] < N
        kept == SelectSeq(shifted, inside)
        cells == {kept[i] : i \in 1..Len(kept)}
    IN  [y \in 0..(N - 1) |->
            [x \in 0..(N - 1) |-> IF <<x, y>> \in cells THEN Hash ELSE Blank]]

(***************************************************************************)
(* The shape definitions of AsciiCube and AsciiTessarect and the topology  *)
(* ThreeTesseract builds.  Vertex number i of the code is element i + 1.   *)
(***************************************************************************)
AsciiCube_SIZE == 20
AsciiCube_HALFSIZE == AsciiCube_SIZE \div 2
AsciiTessarect_SIZE == 10
AsciiTessarect_HALFSIZE == AsciiTessarect_SIZE \div 2

AsciiCube_BASE_POINTS ==
    LET H == AsciiCube_HALFSIZE
    IN  << <<-H, -H, -H>>, <<H, -H, -H>>, <<H, H, -H>>, <<-H, H, -H>>,
           <<-H, -H, H>>,  <<H, -H, H>>,  <<H, H, H>>,  <<-H, H, H>> >>

AsciiCube_EDGES ==
    << <<0, 1>>, <<1, 2>>, <<2, 3>>, <<3, 0>>,
       <<4, 5>>, <<5, 6>>, <<6, 7>>, <<7, 4>>,
       <<0, 4>>, <<1, 5>>, <<2, 6>>, <<3, 7>> >>

\* i & (1 << b), as 0 or 1
Bit(i, b) == (i \div (2^b)) % 2

\* (i & (1 << b)) ? h : -h
BitSign(i, b, h) == IF Bit(i, b) = 1 THEN h ELSE -h

AsciiTessarect_BASE_POINTS ==
    [n \in 1..16 |-> [b \in 1..4 |-> BitSign(n - 1, b - 1, AsciiTessarect_HALFSIZE)]]

AsciiTessarect_EDGES ==
    << <<0, 1>>, <<1, 2>>, <<2, 3>>, <<3, 0>>,
       <<4, 5>>, <<5, 6>>, <<6, 7>>, <<7, 4>>,
       <<0, 4>>, <<1, 5>>, <<2, 6>>, <<3, 7>>,
       <<8, 9>>, <<9, 10>>, <<10, 11>>, <<11, 8>>,
       <<12, 13>>, <<13, 14>>, <<14, 15>>, <<15, 12>>,
       <<8, 12>>, <<9, 13>>, <<10, 14>>, <<11, 15>>,
       <<0, 8>>, <<1, 9>>, <<2, 10>>, <<3, 11>>,
       <<4, 12>>, <<5, 13>>, <<6, 14>>, <<7, 15>> >>

\* the vertices buildTesseractTopology pushes, as <<x, y, z, w>>
TopologyVertices == [n \in 1..16 |-> [b \in 1..4 |-> BitSign(n - 1, b - 1, 1)]]

\* i + (1 << bit): an addition in place of the exclusive or
FlipBitAdded(i, bit) == i + 2^bit

\* i ^ (1 << bit)
FlipBit(i, bit) == IF Bit(i, bit) = 1 THEN i - 2^bit ELSE i + 2^bit

\* the same loops without the test i < j
RECURSIVE TopologyEdgesBothWays(_, _)
TopologyEdgesBothWays(i, bit) ==
    IF i >= 16 THEN <<>>
    ELSE IF bit >= 4 THEN TopologyEdgesBothWays(i + 1, 0)
    ELSE << <<i, FlipBit(i, bit)>> >> \o TopologyEdgesBothWays(i, bit + 1)

\* the edges the two nested loops of buildTesseractTopology push from the
\* iteration (i, bit) on
RECURSIVE TopologyEdges(_, _)
TopologyEdges(i, bit) ==
    IF i >= 16 THEN <<>>
    ELSE IF bit >= 4 THEN TopologyEdges(i + 1, 0)
    ELSE LET j == FlipBit(i, bit)
         IN  (IF i < j THEN << <<i, j>> >> ELSE <<>>) \o TopologyEdges(i, bit + 1)

\* the fields buildTesseractTopology leaves behind
buildTesseractTopology ==
    [vertices4D |-> TopologyVertices, edges |-> TopologyEdges(0, 0)]

Shapes == {"AsciiCube", "AsciiTessarect", "ThreeTesseract"}

ShapeVertices(s) ==
    IF s = "AsciiCube" THEN AsciiCube_BASE_POINTS
    ELSE IF s = "AsciiTessarect" THEN AsciiTessarect_BASE_POINTS
    ELSE buildTesseractTopology.vertices4D

ShapeEdges(s) ==
    IF s = "AsciiCube" THEN AsciiCube_EDGES
    ELSE IF s = "AsciiTessarect" THEN AsciiTessarect_EDGES
    ELSE buildTesseractTopology.edges

\* what the code reads for the n-th edge [i, j] of a shape: the two vertex
\* numbers and the vertices they stand for
EdgeEnds(s, n) ==
    LET e == ShapeEdges(s)[n]
    IN  <<e[1], e[2], ShapeVertices(s)[e[1] + 1], ShapeVertices(s)[e[2] + 1]>>

(***************************************************************************)
(* AsciiTesseract of ascii-tesseract.ts: the outline of the square drawn   *)
(* with Bresenham lines and a character per direction.  It declares the    *)
(* same SIZE and CANVAS_SIZE as the point cloud, and the same basePoints   *)
(* and calculateRotation as AsciiSquare.                                   *)
(***************************************************************************)
\* "-\\|/" as UTF-16 code units
lineASCII == <<45, 92, 124, 47>>

\* the points the loop of drawLine pushes from (x0, y0) on
RECURSIVE BresenhamLoop(_, _, _, _, _, _, _, _, _)
BresenhamLoop(x0, y0, x1, y1, dx, dy, sx, sy, err) ==
    IF x0 = x1 /\ y0 = y1 THEN << <<x0, y0>> >>
    ELSE LET err2 == err * 2
             stepX == err2 > -dy
             stepY == err2 < dx
         IN  << <<x0, y0>> >> \o
             BresenhamLoop(IF stepX THEN x0 + sx ELSE x0,
                           IF stepY THEN y0 + sy ELSE y0, x1, y1, dx, dy, sx, sy,
                           (IF stepX THEN err - dy ELSE err) + (IF stepY THEN dx ELSE 0))

\* drawLine(x0, y0, x1, y1) of ascii-tesseract.ts
OutlineDrawLine(x0, y0, x1, y1) ==
    LET dx == Abs(x1 - x0)
        dy == Abs(y1 - y0)
    IN  BresenhamLoop(x0, y0, x1, y1, dx, dy,
                      IF x0 < x1 THEN 1 ELSE -1, IF y0 < y1 THEN 1 ELSE -1, dx - dy)

\* Number(b)
Number(b) == IF b THEN 1 ELSE 0

\* chooseASCII of ascii-tesseract.ts without the conjuncts that keep the
\* four directions apart
OutlineChooseASCIIOverlapping(x0, y0, x1, y1) ==
    LET dx == Abs(x1 - x0)
        dy == Abs(y1 - y0)
        i  == Number(dx > 2 * dy) * 0 + Number(2 * dx >= dy) * 1
              + Number(dy > 2 * dx) * 2 + Number(2 * dy >= dx) * 3
    IN  IF i + 1 \in DOMAIN lineASCII THEN lineASCII[i + 1] ELSE Undefined

\* chooseASCII(x0, y0, x1, y1) of ascii-tesseract.ts
OutlineChooseASCII(x0, y0, x1, y1) ==
    LET dx == Abs(x1 - x0)
        dy == Abs(y1 - y0)
        i  == Number(dx > 2 * dy) * 0 + Number(2 * dx >= dy /\ dy > dx) * 1
              + Number(dy > 2 * dx) * 2 + Number(2 * dy >= dx /\ dx > dy) * 3
    IN  IF i + 1 \in DOMAIN lineASCII THEN lineASCII[i + 1] ELSE Undefined

\* rotatedPoints.flatMap(...) of drawFrame
RECURSIVE OutlineEdge(_, _)
OutlineEdge(pts, i) ==
    IF i > Len(pts) THEN <<>>
    ELSE LET q == pts[(i % Len(pts)) + 1]
         IN  OutlineDrawLine(pts[i][1], pts[i][2], q[1], q[2]) \o OutlineEdge(pts, i + 1)

\* the .forEach of drawFrame over kept[lo..hi]: element number index (from
\* 0) of the filtered array is written with the character for the points
\* number index - 1 and index + 1 of the unfiltered array `edge`
RECURSIVE OutlineForEach(_, _, _, _, _)
OutlineForEach(screen, kept, edge, lo, hi) ==
    IF lo > hi \/ ~Evaluated(screen) THEN screen
    ELSE IF lo = hi
    THEN LET index == lo - 1
             nextPoint == edge[((index + 1) % Len(edge)) + 1]
             prevPoint == edge[((index - 1 + Len(edge)) % Len(edge)) + 1]
         IN  Store(screen, kept[lo][2], kept[lo][1],
                   OutlineChooseASCII(prevPoint[1], prevPoint[2],
                                      nextPoint[1], nextPoint[2]))
    ELSE LET mid == (lo + hi) \div 2
         IN  OutlineForEach(OutlineForEach(screen, kept, edge, lo, mid),
                            kept, edge, mid + 1, hi)

\* drawFrame() of ascii-tesseract.ts: the screen it leaves in screenArray
OutlineDrawFrame(a) ==
    LET N == AsciiTesseract_CANVAS_SIZE
        edge == OutlineEdge(calculateRotation(a), 1)
        shifted == [i \in 1..Len(edge) |-> <<edge[i][1] + AsciiTesseract_HALFCANVAS,
                                             edge[i][2] + AsciiTesseract_HALFCANVAS>>]
        inside(q) == q[1] >= 0 /\ q[1] < N /\ q[2] >= 0 /\ q[2] < N
        kept == SelectSeq(shifted, inside)
    IN  OutlineForEach(drawPoints(<<>>), kept, edge, 1, Len(kept))

(***************************************************************************)
(* IEEE-754 binary64 numbers of any magnitude, for the rotations and the   *)
(* perspective divisions of AsciiCube and AsciiTessarect: <<s, e, m>> is   *)
(* (-1)^s * m * 2^e with m an integer of exactly 53 bits held in four      *)
(* limbs of 14 bits, least significant first; zero is <<0, 0, <<0,0,0,0>>>>*)
(* (the sign of a zero has no effect on a frame and is not kept).          *)
(* Natural numbers of any size are sequences of limbs.                     *)
(***************************************************************************)
B14 == 2^14

\* limbs with carries (or borrows) propagated, every limb in 0 .. 2^14 - 1
RECURSIVE BCarry(_, _, _)
BCarry(a, i, c) ==
    IF i > Len(a) THEN (IF c = 0 THEN <<>> ELSE <<c % B14>> \o BCarry(a, i, c \div B14))
    ELSE LET t == a[i] + c IN <<t % B14>> \o BCarry(a, i + 1, t \div B14)

BLimb(a, i) == IF i \in DOMAIN a THEN a[i] ELSE 0

\* the limbs of an integer 0 <= n < 2^31
BFromInt(n) == <<n % B14, (n \div B14) % B14, n \div (B14 * B14)>>

\* the integer of limbs whose value is below 2^31
BToInt(a) == BLimb(a, 1) + B14 * BLimb(a, 2) + B14 * B14 * BLimb(a, 3)

BIsZero(a) == \A i \in DOMAIN a : a[i] = 0

RECURSIVE BTop(_, _)
BTop(a, i) == IF i = 0 THEN 0 ELSE IF a[i] # 0 THEN i ELSE BTop(a, i - 1)

\* the number of significant bits
BBitLen(a) ==
    LET t == BTop(a, Len(a))
    IN  IF t = 0 THEN 0 ELSE 14 * (t - 1) + BitLen(a[t])

\* floor(a / 2^n) and a * 2^n (the concatenation makes TLC compute the limbs
\* at once)
BShr(a, n) ==
    LET q == n \div 14
        r == n % 14
    IN  [i \in 1..(IF Len(a) > q THEN Len(a) - q ELSE 1) |->
            (BLimb(a, i + q) \div 2^r) + (BLimb(a, i + q + 1) % 2^r) * 2^(14 - r)] \o <<>>

BShl(a, n) ==
    LET q == n \div 14
        r == n % 14
    IN  [i \in 1..(Len(a) + q + 1) |->
            ((BLimb(a, i - q) * 2^r) % B14) + ((BLimb(a, i - q - 1) * 2^r) \div B14)] \o <<>>

\* bit n of a (bit 0 the least significant); a mod 2^n = 0
BBit(a, n) == IF n < 0 THEN 0 ELSE (BLimb(a, (n \div 14) + 1) \div 2^(n % 14)) % 2
BLowZero(a, n) ==
    n <= 0 \/ /\ \A i \in 1..(n \div 14) : BLimb(a, i) = 0
              /\ BLimb(a, (n \div 14) + 1) % 2^(n % 14) = 0

BAdd(a, b) ==
    BCarry([i \in 1..(IF Len(a) > Len(b) THEN Len(a) ELSE Len(b)) |->
               BLimb(a, i) + BLimb(b, i)] \o <<>>, 1, 0)

\* a - b for a >= b
BSub(a, b) ==
    BCarry([i \in 1..(IF Len(a) > Len(b) THEN Len(a) ELSE Len(b)) |->
               BLimb(a, i) - BLimb(b, i)] \o <<>>, 1, 0)

\* a < b
RECURSIVE BLessFrom(_, _, _)
BLessFrom(a, b, i) ==
    IF i = 0 THEN FALSE
    ELSE IF BLimb(a, i) # BLimb(b, i) THEN BLimb(a, i) < BLimb(b, i)
    ELSE BLessFrom(a, b, i - 1)

BLess(a, b) == BLessFrom(a, b, IF Len(a) > Len(b) THEN Len(a) ELSE Len(b))

\* the product of two numbers of four limbs
BMul4(a, b) ==
    BCarry(<< a[1] * b[1],
              a[1] * b[2] + a[2] * b[1],
              a[1] * b[3] + a[2] * b[2] + a[3] * b[1],
              a[1] * b[4] + a[2] * b[3] + a[3] * b[2] + a[4] * b[1],
              a[2] * b[4] + a[3] * b[3] + a[4] * b[2],
              a[3] * b[4] + a[4] * b[3],
              a[4] * b[4] >>, 1, 0)

BFix4(a) == <<BLimb(a, 1), BLimb(a, 2), BLimb(a, 3), BLimb(a, 4)>>

FZero == <<0, 0, <<0, 0, 0, 0>>>>
FIsZero(a) == a[3] = <<0, 0, 0, 0>>

\* (-1)^s * x * 2^e rounded to 53 significant bits, ties to even
FMake(s, x, e) ==
    LET len == BBitLen(x)
        sh == len - 53
    IN  IF len = 0 THEN FZero
        ELSE IF sh <= 0 THEN <<s, e + sh, BFix4(BShl(x, -sh))>>
        ELSE LET q == BShr(x, sh)
                 up == BBit(x, sh - 1) = 1 /\ (~BLowZero(x, sh - 1) \/ q[1] % 2 = 1)
                 r == IF up THEN BCarry(q, 1, 1) ELSE q
             IN  IF BBitLen(r) > 53 THEN <<s, e + sh + 1, BFix4(BShr(r, 1))>>
                 ELSE <<s, e + sh, BFix4(r)>>

\* the number value of an integer, and of a significand hi * 2^28 + lo
FromInt(n) == FMake(IF n < 0 THEN 1 ELSE 0, BFromInt(IF n < 0 THEN -n ELSE n), 0)
FLiteral(s, e, hi, lo) ==
    <<s, e, <<lo % B14, lo \div B14, hi % B14, hi \div B14>> >>

FNeg(a) == IF FIsZero(a) THEN a ELSE <<1 - a[1], a[2], a[3]>>

\* a * b
FMul(a, b) ==
    IF FIsZero(a) \/ FIsZero(b) THEN FZero
    ELSE FMake((a[1] + b[1]) % 2, BMul4(a[3], b[3]), a[2] + b[2])

\* a + b
FAdd(a, b) ==
    IF FIsZero(a) THEN b
    ELSE IF FIsZero(b) THEN a
    ELSE LET big == IF a[2] >= b[2] THEN a ELSE b
             small == IF a[2] >= b[2] THEN b ELSE a
             d == big[2] - small[2]
         IN  IF d > 55 THEN big
             ELSE LET x == BShl(big[3], d)
                      y == small[3]
                  IN  IF big[1] = small[1] THEN FMake(big[1], BAdd(x, y), small[2])
                      ELSE IF BLess(x, y) THEN FMake(small[1], BSub(y, x), small[2])
                      ELSE FMake(big[1], BSub(x, y), small[2])

\* a - b
FSub(a, b) == FAdd(a, FNeg(b))

\* n more bits of the quotient r / d: <<bits, remainder>>, r < 2 * d
RECURSIVE DivBits(_, _, _, _)
DivBits(r, d, n, acc) ==
    IF n = 0 THEN <<acc, r>>
    ELSE IF BLess(r, d) THEN DivBits(BFix4(BShl(r, 1)), d, n - 1, 2 * acc)
    ELSE DivBits(BFix4(BShl(BSub(r, d), 1)), d, n - 1, 2 * acc + 1)

\* a / b for b # 0: 57 bits of the quotient of the significands and one
\* more bit that tells whether a remainder is left
FDiv(a, b) ==
    IF FIsZero(a) THEN FZero
    ELSE LET c1 == DivBits(a[3], b[3], 1, 0)
             c2 == DivBits(c1[2], b[3], 14, 0)
             c3 == DivBits(c2[2], b[3], 14, 0)
             c4 == DivBits(c3[2], b[3], 14, 0)
             c5 == DivBits(c4[2], b[3], 13, 0)
             rest == IF BIsZero(c5[2]) THEN 0 ELSE 1
         IN  FMake((a[1] + b[1]) % 2,
                   <<2 * c5[1] + rest, c4[1], c3[1], c2[1], c1[1]>>,
                   a[2] - b[2] - 56)

\* a < b
FLess(a, b) ==
    LET mag(u, v) == \* |u| < |v|, neither zero
            u[2] < v[2] \/ (u[2] = v[2] /\ BLess(u[3], v[3]))
    IN  IF FIsZero(a) THEN ~FIsZero(b) /\ b[1] = 0
        ELSE IF FIsZero(b) THEN a[1] = 1
        ELSE IF a[1] # b[1] THEN a[1] = 1
        ELSE IF a[1] = 0 THEN mag(a, b) ELSE mag(b, a)

\* Math.round(a) = floor(a + 0.5), for |a| < 2^30
FRound(a) ==
    IF FIsZero(a) THEN 0
    ELSE IF a[2] >= 0 THEN (1 - 2 * a[1]) * BToInt(BShl(a[3], a[2]))
    ELSE LET sh == -a[2]
             ip == BToInt(BShr(a[3], sh))
             half == BBit(a[3], sh - 1) = 1
             below == ~BLowZero(a[3], sh - 1)
         IN  IF a[1] = 0 THEN ip + (IF half THEN 1 ELSE 0)
             ELSE -ip - (IF half /\ below THEN 1 ELSE 0)

(***************************************************************************)
(* Math.sin and Math.cos on binary64.  The drivers modelled here produce   *)
(* angles that are multiples of half a degree; entry h + 1 of a table is   *)
(* the binary64 value of Math.sin (Math.cos) at (h / 2) * Math.PI / 180,   *)
(* written <<s, e, hi, lo>> for (-1)^s * (hi * 2^28 + lo) * 2^e, and       *)
(* <<0, 0, 0, 0>> for zero.                                                *)
(***************************************************************************)
HalfDegrees == 2 * 360

\* Math.sin(angle * Math.PI / 180) for angle = 0, 0.5, 1, ..., 359.5
SinHalfDegrees ==
    << <<0, 0, 0, 0>>, <<0, -59, 18740092, 76893217>>, <<0, -58, 18739378, 193584414>>,
       <<0, -58, 28107284, 59820688>>, <<0, -57, 18736524, 167238695>>, <<0, -57, 23417980, 74010129>>,
       <<0, -57, 28097652, 149932301>>, <<0, -57, 32775185, 25862861>>, <<0, -56, 18725110, 225071400>>,
       <<0, -56, 21061203, 37326409>>, <<0, -56, 23395691, 146964738>>, <<0, -56, 25728398, 76082520>>,
       <<0, -56, 28059145, 188503915>>, <<0, -56, 30387756, 82799861>>, <<0, -56, 32714052, 206529235>>,
       <<0, -55, 17518928, 258843344>>, <<0, -55, 18679497, 109944345>>, <<0, -55, 19838643, 90955127>>,
       <<0, -55, 20996278, 128471925>>, <<0, -55, 22152314, 179975138>>, <<0, -55, 23306663, 235631497>>,
       <<0, -55, 24459238, 51658287>>, <<0, -55, 25609949, 225862223>>, <<0, -55, 26758711, 51950101>>,
       <<0, -55, 27905434, 205674741>>, <<0, -55, 29050033, 62268785>>, <<0, -55, 30192419, 114148981>>,
       <<0, -55, 31332506, 93649867>>, <<0, -55, 32470207, 48544029>>, <<0, -54, 16802717, 171908471>>,
       <<0, -54, 17369052, 26412688>>, <<0, -54, 17934063, 224362808>>, <<0, -54, 18497709, 221417001>>,
       <<0, -54, 19059947, 38023524>>, <<0, -54, 19620732, 260298184>>, <<0, -54, 20180024, 161851422>>,
       <<0, -54, 20737779, 120580431>>, <<0, -54, 21293955, 8927105>>, <<0, -54, 21848509, 52699>>,
       <<0, -54, 22401399, 31832761>>, <<0, -54, 22952583, 76155893>>, <<0, -54, 23502019, 139784474>>,
       <<0, -54, 24049665, 265212732>>, <<0, -54, 24595480, 263086619>>, <<0, -54, 25139422, 249927297>>,
       <<0, -54, 25681450, 112109923>>, <<0, -54, 26221522, 43581354>>, <<0, -54, 26759597, 9833052>>,
       <<0, -54, 27295634, 17177296>>, <<0, -54, 27829592, 113584851>>, <<0, -54, 28361431, 121083987>>,
       <<0, -54, 28891110, 173462645>>, <<0, -54, 29418589, 180225480>>, <<0, -54, 29943828, 95853892>>,
       <<0, -54, 30466786, 189062656>>, <<0, -54, 30987424, 238311224>>, <<0, -54, 31505703, 69488761>>,
       <<0, -54, 32021582, 93595569>>, <<0, -54, 32535022, 233808109>>, <<0, -54, 33045985, 194717549>>,
       <<0, -54, 33554431, 268435455>>, <<0, -53, 17030161, 130823701>>, <<0, -53, 17281810, 16637715>>,
       <<0, -53, 17532142, 150285980>>, <<0, -53, 17781139, 246209834>>, <<0, -53, 18028783, 46144091>>,
       <<0, -53, 18275053, 124811037>>, <<0, -53, 18519932, 11257768>>, <<0, -53, 18763400, 68287763>>,
       <<0, -53, 19005439, 150664820>>, <<0, -53, 19246031, 142363000>>, <<0, -53, 19485157, 225378876>>,
       <<0, -53, 19722800, 74799710>>, <<0, -53, 19958940, 201353001>>, <<0, -53, 20193561, 72728246>>,
       <<0, -53, 20426643, 261428202>>, <<0, -53, 20658171, 29215032>>, <<0, -53, 20888125, 11827726>>,
       <<0, -53, 21116488, 71858877>>, <<0, -53, 21343243, 104419044>>, <<0, -53, 21568373, 37492252>>,
       <<0, -53, 21791860, 100724462>>, <<0, -53, 22013688, 20467667>>, <<0, -53, 22233839, 93869647>>,
       <<0, -53, 22452297, 115477464>>, <<0, -53, 22669045, 182886567>>, <<0, -53, 22884067, 160209963>>,
       <<0, -53, 23097346, 215286556>>, <<0, -53, 23308867, 14709520>>, <<0, -53, 23518612, 66335602>>,
       <<0, -53, 23726566, 109001676>>, <<0, -53, 23932713, 186593094>>, <<0, -53, 24137038, 111496504>>,
       <<0, -53, 24339525, 1791692>>, <<0, -53, 24540158, 13134210>>, <<0, -53, 24738922, 70635141>>,
       <<0, -53, 24935802, 137608897>>, <<0, -53, 25130783, 215882654>>, <<0, -53, 25323851, 77667383>>,
       <<0, -53, 25514990, 71167764>>, <<0, -53, 25704186, 47140921>>, <<0, -53, 25891424, 164500356>>,
       <<0, -53, 26076691, 85304103>>, <<0, -53, 26259972, 48788051>>, <<0, -53, 26441253, 66347986>>,
       <<0, -53, 26620520, 190260370>>, <<0, -53, 26797760, 245529108>>, <<0, -53, 26972960, 98600073>>,
       <<0, -53, 27146105, 194507944>>, <<0, -53, 27317183, 214971666>>, <<0, -53, 27486181, 152405831>>,
       <<0, -53, 27653086, 41751538>>, <<0, -53, 27817884, 229174949>>, <<0, -53, 27980565, 30149836>>,
       <<0, -53, 28141114, 145633243>>, <<0, -53, 28299520, 246399632>>, <<0, -53, 28455772, 47032645>>,
       <<0, -53, 28609856, 111478080>>, <<0, -53, 28761761, 242674397>>, <<0, -53, 28911477, 19663505>>,
       <<0, -53, 29058990, 140004522>>, <<0, -53, 29204291, 4087746>>, <<0, -53, 29347367, 131283398>>,
       <<0, -53, 29488209, 12684181>>, <<0, -53, 29626804, 258811655>>, <<0, -53, 29763144, 183916400>>,
       <<0, -53, 29897217, 222112876>>, <<0, -53, 30029014, 48543482>>, <<0, -53, 30158523, 190200010>>,
       <<0, -53, 30285736, 147080634>>, <<0, -53, 30410643, 3004263>>, <<0, -53, 30533233, 157373118>>,
       <<0, -53, 30653498, 251625365>>, <<0, -53, 30771429, 243167784>>, <<0, -53, 30887017, 137127534>>,
       <<0, -53, 31000252, 254971206>>, <<0, -53, 31111127, 160942936>>, <<0, -53, 31219633, 4417970>>,
       <<0, -53, 31325760, 251639813>>, <<0, -53, 31429503, 75276412>>, <<0, -53, 31530852, 38939931>>,
       <<0, -53, 31629799, 218300062>>, <<0, -53, 31726338, 201241802>>, <<0, -53, 31820461, 161761316>>,
       <<0, -53, 31912161, 54809855>>, <<0, -53, 32001430, 153311200>>, <<0, -53, 32088262, 242998047>>,
       <<0, -53, 32172651, 159421888>>, <<0, -53, 32254590, 56523648>>, <<0, -53, 32334072, 138329601>>,
       <<0, -53, 32411092, 122208021>>, <<0, -53, 32485644, 44299278>>, <<0, -53, 32557721, 259635749>>,
       <<0, -53, 32627320, 100080590>>, <<0, -53, 32694434, 21923599>>, <<0, -53, 32759057, 263812278>>,
       <<0, -53, 32821187, 41549951>>, <<0, -53, 32880816, 232550927>>, <<0, -53, 32937942, 154711746>>,
       <<0, -53, 32992559, 250858571>>, <<0, -53, 33044664, 209787927>>, <<0, -53, 33094253, 40093553>>,
       <<0, -53, 33141321, 70247516>>, <<0, -53, 33185865, 143371036>>, <<0, -53, 33227882, 154178681>>,
       <<0, -53, 33267369, 49047707>>, <<0, -53, 33304322, 94518923>>, <<0, -53, 33338739, 72051799>>,
       <<0, -53, 33370617, 83388358>>, <<0, -53, 33399954, 13735845>>, <<0, -53, 33426747, 68687266>>,
       <<0, -53, 33450994, 237396143>>, <<0, -53, 33472695, 24182774>>, <<0, -53, 33491846, 59184714>>,
       <<0, -53, 33508446, 219342365>>, <<0, -53, 33522495, 165299703>>, <<0, -53, 33533991, 146736487>>,
       <<0, -53, 33542933, 197083765>>, <<0, -53, 33549321, 133541770>>, <<0, -53, 33553154, 93964749>>,
       <<0, -52, 16777216, 0>>, <<0, -53, 33553154, 93964749>>, <<0, -53, 33549321, 133541770>>,
       <<0, -53, 33542933, 197083765>>, <<0, -53, 33533991, 146736487>>, <<0, -53, 33522495, 165299703>>,
       <<0, -53, 33508446, 219342365>>, <<0, -53, 33491846, 59184714>>, <<0, -53, 33472695, 24182774>>,
       <<0, -53, 33450994, 237396143>>, <<0, -53, 33426747, 68687266>>, <<0, -53, 33399954, 13735846>>,
       <<0, -53, 33370617, 83388359>>, <<0, -53, 33338739, 72051799>>, <<0, -53, 33304322, 94518924>>,
       <<0, -53, 33267369, 49047708>>, <<0, -53, 33227882, 154178682>>, <<0, -53, 33185865, 143371036>>,
       <<0, -53, 33141321, 70247515>>, <<0, -53, 33094253, 40093554>>, <<0, -53, 33044664, 209787927>>,
       <<0, -53, 32992559, 250858571>>, <<0, -53, 32937942, 154711746>>, <<0, -53, 32880816, 232550927>>,
       <<0, -53, 32821187, 41549952>>, <<0, -53, 32759057, 263812278>>, <<0, -53, 32694434, 21923599>>,
       <<0, -53, 32627320, 100080591>>, <<0, -53, 32557721, 259635749>>, <<0, -53, 32485644, 44299278>>,
       <<0, -53, 32411092, 122208021>>, <<0, -53, 32334072, 138329601>>, <<0, -53, 32254590, 56523648>>,
       <<0, -53, 32172651, 159421888>>, <<0, -53, 32088262, 242998048>>, <<0, -53, 32001430, 153311201>>,
       <<0, -53, 31912161, 54809856>>, <<0, -53, 31820461, 161761317>>, <<0, -53, 31726338, 201241803>>,
       <<0, -53, 31629799, 218300062>>, <<0, -53, 31530852, 38939932>>, <<0, -53, 31429503, 75276412>>,
       <<0, -53, 31325760, 251639813>>, <<0, -53, 31219633, 4417970>>, <<0, -53, 31111127, 160942936>>,
       <<0, -53, 31000252, 254971206>>, <<0, -53, 30887017, 137127535>>, <<0, -53, 30771429, 243167785>>,
       <<0, -53, 30653498, 251625366>>, <<0, -53, 30533233, 157373119>>, <<0, -53, 30410643, 3004264>>,
       <<0, -53, 30285736, 147080634>>, <<0, -53, 30158523, 190200009>>, <<0, -53, 30029014, 48543481>>,
       <<0, -53, 29897217, 222112877>>, <<0, -53, 29763144, 183916402>>, <<0, -53, 29626804, 258811657>>,
       <<0, -53, 29488209, 12684181>>, <<0, -53, 29347367, 131283399>>, <<0, -53, 29204291, 4087746>>,
       <<0, -53, 29058990, 140004523>>, <<0, -53, 28911477, 19663505>>, <<0, -53, 28761761, 242674398>>,
       <<0, -53, 28609856, 111478081>>, <<0, -53, 28455772, 47032646>>, <<0, -53, 28299520, 246399633>>,
       <<0, -53, 28141114, 145633243>>, <<0, -53, 27980565, 30149837>>, <<0, -53, 27817884, 229174949>>,
       <<0, -53, 27653086, 41751539>>, <<0, -53, 27486181, 152405833>>, <<0, -53, 27317183, 214971667>>,
       <<0, -53, 27146105, 194507944>>, <<0, -53, 26972960, 98600074>>, <<0, -53, 26797760, 245529107>>,
       <<0, -53, 26620520, 190260370>>, <<0, -53, 26441253, 66347986>>, <<0, -53, 26259972, 48788053>>,
       <<0, -53, 26076691, 85304105>>, <<0, -53, 25891424, 164500358>>, <<0, -53, 25704186, 47140921>>,
       <<0, -53, 25514990, 71167764>>, <<0, -53, 25323851, 77667381>>, <<0, -53, 25130783, 215882654>>,
       <<0, -53, 24935802, 137608898>>, <<0, -53, 24738922, 70635141>>, <<0, -53, 24540158, 13134211>>,
       <<0, -53, 24339525, 1791695>>, <<0, -53, 24137038, 111496507>>, <<0, -53, 23932713, 186593094>>,
       <<0, -53, 23726566, 109001677>>, <<0, -53, 23518612, 66335603>>, <<0, -53, 23308867, 14709519>>,
       <<0, -53, 23097346, 215286556>>, <<0, -53, 22884067, 160209964>>, <<0, -53, 22669045, 182886568>>,
       <<0, -53, 22452297, 115477465>>, <<0, -53, 22233839, 93869646>>, <<0, -53, 22013688, 20467668>>,
       <<0, -53, 21791860, 100724463>>, <<0, -53, 21568373, 37492254>>, <<0, -53, 21343243, 104419046>>,
       <<0, -53, 21116488, 71858880>>, <<0, -53, 20888125, 11827727>>, <<0, -53, 20658171, 29215034>>,
       <<0, -53, 20426643, 261428200>>, <<0, -53, 20193561, 72728245>>, <<0, -53, 19958940, 201353001>>,
       <<0, -53, 19722800, 74799711>>, <<0, -53, 19485157, 225378877>>, <<0, -53, 19246031, 142363003>>,
       <<0, -53, 19005439, 150664823>>, <<0, -53, 18763400, 68287763>>, <<0, -53, 18519932, 11257769>>,
       <<0, -53, 18275053, 124811036>>, <<0, -53, 18028783, 46144090>>, <<0, -53, 17781139, 246209834>>,
       <<0, -53, 17532142, 150285981>>, <<0, -53, 17281810, 16637717>>, <<0, -53, 17030161, 130823704>>,
       <<0, -54, 33554431, 268435455>>, <<0, -54, 33045985, 194717551>>, <<0, -54, 32535022, 233808111>>,
       <<0, -54, 32021582, 93595573>>, <<0, -54, 31505703, 69488766>>, <<0, -54, 30987424, 238311224>>,
       <<0, -54, 30466786, 189062658>>, <<0, -54, 29943828, 95853896>>, <<0, -54, 29418589, 180225478>>,
       <<0, -54, 28891110, 173462645>>, <<0, -54, 28361431, 121083988>>, <<0, -54, 27829592, 113584854>>,
       <<0, -54, 27295634, 17177301>>, <<0, -54, 26759597, 9833058>>, <<0, -54, 26221522, 43581362>>,
       <<0, -54, 25681450, 112109925>>, <<0, -54, 25139422, 249927301>>, <<0, -54, 24595480, 263086617>>,
       <<0, -54, 24049665, 265212731>>, <<0, -54, 23502019, 139784477>>, <<0, -54, 22952583, 76155896>>,
       <<0, -54, 22401399, 31832766>>, <<0, -54, 21848509, 52706>>, <<0, -54, 21293955, 8927105>>,
       <<0, -54, 20737779, 120580433>>, <<0, -54, 20180024, 161851426>>, <<0, -54, 19620732, 260298189>>,
       <<0, -54, 19059947, 38023523>>, <<0, -54, 18497709, 221417010>>, <<0, -54, 17934063, 224362811>>,
       <<0, -54, 17369052, 26412693>>, <<0, -54, 16802717, 171908469>>, <<0, -55, 32470207, 48544029>>,
       <<0, -55, 31332506, 93649872>>, <<0, -55, 30192419, 114148973>>, <<0, -55, 29050033, 62268796>>,
       <<0, -55, 27905434, 205674741>>, <<0, -55, 26758711, 51950120>>, <<0, -55, 25609949, 225862229>>,
       <<0, -55, 24459238, 51658296>>, <<0, -55, 23306663, 235631495>>, <<0, -55, 22152314, 179975155>>,
       <<0, -55, 20996278, 128471929>>, <<0, -55, 19838643, 90955118>>, <<0, -55, 18679497, 109944356>>,
       <<0, -55, 17518928, 258843344>>, <<0, -56, 32714052, 206529240>>, <<0, -56, 30387756, 82799873>>,
       <<0, -56, 28059145, 188503935>>, <<0, -56, 25728398, 76082515>>, <<0, -56, 23395691, 146964772>>,
       <<0, -56, 21061203, 37326418>>, <<0, -56, 18725110, 225071416>>, <<0, -57, 32775185, 25862907>>,
       <<0, -57, 28097652, 149932298>>, <<0, -57, 23417980, 74010139>>, <<0, -57, 18736524, 167238656>>,
       <<0, -58, 28107284, 59820767>>, <<0, -58, 18739378, 193584393>>, <<0, -59, 18740092, 76893487>>,
       <<0, -105, 18506339, 51665927>>, <<1, -59, 18740092, 76893089>>, <<1, -58, 18739378, 193584322>>,
       <<1, -58, 28107284, 59820696>>, <<1, -57, 18736524, 167238685>>, <<1, -57, 23417980, 74010168>>,
       <<1, -57, 28097652, 149932263>>, <<1, -57, 32775185, 25862871>>, <<1, -56, 18725110, 225071366>>,
       <<1, -56, 21061203, 37326400>>, <<1, -56, 23395691, 146964722>>, <<1, -56, 25728398, 76082529>>,
       <<1, -56, 28059145, 188503886>>, <<1, -56, 30387756, 82799855>>, <<1, -56, 32714052, 206529254>>,
       <<1, -55, 17518928, 258843335>>, <<1, -55, 18679497, 109944348>>, <<1, -55, 19838643, 90955126>>,
       <<1, -55, 20996278, 128471920>>, <<1, -55, 22152314, 179975131>>, <<1, -55, 23306663, 235631502>>,
       <<1, -55, 24459238, 51658271>>, <<1, -55, 25609949, 225862220>>, <<1, -55, 26758711, 51950080>>,
       <<1, -55, 27905434, 205674732>>, <<1, -55, 29050033, 62268787>>, <<1, -55, 30192419, 114148980>>,
       <<1, -55, 31332506, 93649879>>, <<1, -55, 32470207, 48544021>>, <<1, -54, 16802717, 171908473>>,
       <<1, -54, 17369052, 26412681>>, <<1, -54, 17934063, 224362807>>, <<1, -54, 18497709, 221416998>>,
       <<1, -54, 19059947, 38023519>>, <<1, -54, 19620732, 260298177>>, <<1, -54, 20180024, 161851421>>,
       <<1, -54, 20737779, 120580437>>, <<1, -54, 21293955, 8927101>>, <<1, -54, 21848509, 52701>>,
       <<1, -54, 22401399, 31832754>>, <<1, -54, 22952583, 76155892>>, <<1, -54, 23502019, 139784472>>,
       <<1, -54, 24049665, 265212735>>, <<1, -54, 24595480, 263086613>>, <<1, -54, 25139422, 249927297>>,
       <<1, -54, 25681450, 112109913>>, <<1, -54, 26221522, 43581351>>, <<1, -54, 26759597, 9833054>>,
       <<1, -54, 27295634, 17177290>>, <<1, -54, 27829592, 113584850>>, <<1, -54, 28361431, 121083984>>,
       <<1, -54, 28891110, 173462649>>, <<1, -54, 29418589, 180225474>>, <<1, -54, 29943828, 95853892>>,
       <<1, -54, 30466786, 189062647>>, <<1, -54, 30987424, 238311221>>, <<1, -54, 31505703, 69488762>>,
       <<1, -54, 32021582, 93595569>>, <<1, -54, 32535022, 233808107>>, <<1, -54, 33045985, 194717547>>,
       <<1, -53, 16777216, 1>>, <<1, -53, 17030161, 130823699>>, <<1, -53, 17281810, 16637715>>,
       <<1, -53, 17532142, 150285979>>, <<1, -53, 17781139, 246209833>>, <<1, -53, 18028783, 46144088>>,
       <<1, -53, 18275053, 124811037>>, <<1, -53, 18519932, 11257771>>, <<1, -53, 18763400, 68287761>>,
       <<1, -53, 19005439, 150664821>>, <<1, -53, 19246031, 142362998>>, <<1, -53, 19485157, 225378876>>,
       <<1, -53, 19722800, 74799709>>, <<1, -53, 19958940, 201353003>>, <<1, -53, 20193561, 72728244>>,
       <<1, -53, 20426643, 261428202>>, <<1, -53, 20658171, 29215029>>, <<1, -53, 20888125, 11827725>>,
       <<1, -53, 21116488, 71858879>>, <<1, -53, 21343243, 104419041>>, <<1, -53, 21568373, 37492252>>,
       <<1, -53, 21791860, 100724461>>, <<1, -53, 22013688, 20467669>>, <<1, -53, 22233839, 93869644>>,
       <<1, -53, 22452297, 115477464>>, <<1, -53, 22669045, 182886563>>, <<1, -53, 22884067, 160209962>>,
       <<1, -53, 23097346, 215286555>>, <<1, -53, 23308867, 14709521>>, <<1, -53, 23518612, 66335602>>,
       <<1, -53, 23726566, 109001676>>, <<1, -53, 23932713, 186593095>>, <<1, -53, 24137038, 111496502>>,
       <<1, -53, 24339525, 1791693>>, <<1, -53, 24540158, 13134207>>, <<1, -53, 24738922, 70635139>>,
       <<1, -53, 24935802, 137608896>>, <<1, -53, 25130783, 215882655>>, <<1, -53, 25323851, 77667380>>,
       <<1, -53, 25514990, 71167760>>, <<1, -53, 25704186, 47140920>>, <<1, -53, 25891424, 164500356>>,
       <<1, -53, 26076691, 85304106>>, <<1, -53, 26259972, 48788051>>, <<1, -53, 26441253, 66347987>>,
       <<1, -53, 26620520, 190260368>>, <<1, -53, 26797760, 245529108>>, <<1, -53, 26972960, 98600071>>,
       <<1, -53, 27146105, 194507943>>, <<1, -53, 27317183, 214971663>>, <<1, -53, 27486181, 152405829>>,
       <<1, -53, 27653086, 41751538>>, <<1, -53, 27817884, 229174946>>, <<1, -53, 27980565, 30149836>>,
       <<1, -53, 28141114, 145633244>>, <<1, -53, 28299520, 246399630>>, <<1, -53, 28455772, 47032645>>,
       <<1, -53, 28609856, 111478082>>, <<1, -53, 28761761, 242674396>>, <<1, -53, 28911477, 19663506>>,
       <<1, -53, 29058990, 140004520>>, <<1, -53, 29204291, 4087745>>, <<1, -53, 29347367, 131283400>>,
       <<1, -53, 29488209, 12684180>>, <<1, -53, 29626804, 258811656>>, <<1, -53, 29763144, 183916399>>,
       <<1, -53, 29897217, 222112876>>, <<1, -53, 30029014, 48543479>>, <<1, -53, 30158523, 190200008>>,
       <<1, -53, 30285736, 147080635>>, <<1, -53, 30410643, 3004261>>, <<1, -53, 30533233, 157373117>>,
       <<1, -53, 30653498, 251625366>>, <<1, -53, 30771429, 243167786>>, <<1, -53, 30887017, 137127534>>,
       <<1, -53, 31000252, 254971207>>, <<1, -53, 31111127, 160942935>>, <<1, -53, 31219633, 4417970>>,
       <<1, -53, 31325760, 251639812>>, <<1, -53, 31429503, 75276412>>, <<1, -53, 31530852, 38939930>>,
       <<1, -53, 31629799, 218300062>>, <<1, -53, 31726338, 201241803>>, <<1, -53, 31820461, 161761315>>,
       <<1, -53, 31912161, 54809855>>, <<1, -53, 32001430, 153311199>>, <<1, -53, 32088262, 242998046>>,
       <<1, -53, 32172651, 159421888>>, <<1, -53, 32254590, 56523649>>, <<1, -53, 32334072, 138329601>>,
       <<1, -53, 32411092, 122208021>>, <<1, -53, 32485644, 44299277>>, <<1, -53, 32557721, 259635749>>,
       <<1, -53, 32627320, 100080591>>, <<1, -53, 32694434, 21923598>>, <<1, -53, 32759057, 263812278>>,
       <<1, -53, 32821187, 41549951>>, <<1, -53, 32880816, 232550927>>, <<1, -53, 32937942, 154711745>>,
       <<1, -53, 32992559, 250858570>>, <<1, -53, 33044664, 209787927>>, <<1, -53, 33094253, 40093553>>,
       <<1, -53, 33141321, 70247515>>, <<1, -53, 33185865, 143371036>>, <<1, -53, 33227882, 154178682>>,
       <<1, -53, 33267369, 49047707>>, <<1, -53, 33304322, 94518924>>, <<1, -53, 33338739, 72051799>>,
       <<1, -53, 33370617, 83388359>>, <<1, -53, 33399954, 13735845>>, <<1, -53, 33426747, 68687266>>,
       <<1, -53, 33450994, 237396143>>, <<1, -53, 33472695, 24182774>>, <<1, -53, 33491846, 59184714>>,
       <<1, -53, 33508446, 219342365>>, <<1, -53, 33522495, 165299703>>, <<1, -53, 33533991, 146736486>>,
       <<1, -53, 33542933, 197083765>>, <<1, -53, 33549321, 133541770>>, <<1, -53, 33553154, 93964749>>,
       <<1, -52, 16777216, 0>>, <<1, -53, 33553154, 93964749>>, <<1, -53, 33549321, 133541770>>,
       <<1, -53, 33542933, 197083765>>, <<1, -53, 33533991, 146736487>>, <<1, -53, 33522495, 165299703>>,
       <<1, -53, 33508446, 219342365>>, <<1, -53, 33491846, 59184715>>, <<1, -53, 33472695, 24182775>>,
       <<1, -53, 33450994, 237396144>>, <<1, -53, 33426747, 68687266>>, <<1, -53, 33399954, 13735846>>,
       <<1, -53, 33370617, 83388359>>, <<1, -53, 33338739, 72051800>>, <<1, -53, 33304322, 94518923>>,
       <<1, -53, 33267369, 49047707>>, <<1, -53, 33227882, 154178682>>, <<1, -53, 33185865, 143371036>>,
       <<1, -53, 33141321, 70247516>>, <<1, -53, 33094253, 40093553>>, <<1, -53, 33044664, 209787928>>,
       <<1, -53, 32992559, 250858571>>, <<1, -53, 32937942, 154711747>>, <<1, -53, 32880816, 232550928>>,
       <<1, -53, 32821187, 41549953>>, <<1, -53, 32759057, 263812279>>, <<1, -53, 32694434, 21923599>>,
       <<1, -53, 32627320, 100080592>>, <<1, -53, 32557721, 259635750>>, <<1, -53, 32485644, 44299278>>,
       <<1, -53, 32411092, 122208020>>, <<1, -53, 32334072, 138329602>>, <<1, -53, 32254590, 56523647>>,
       <<1, -53, 32172651, 159421889>>, <<1, -53, 32088262, 242998047>>, <<1, -53, 32001430, 153311202>>,
       <<1, -53, 31912161, 54809856>>, <<1, -53, 31820461, 161761316>>, <<1, -53, 31726338, 201241804>>,
       <<1, -53, 31629799, 218300063>>, <<1, -53, 31530852, 38939933>>, <<1, -53, 31429503, 75276413>>,
       <<1, -53, 31325760, 251639816>>, <<1, -53, 31219633, 4417971>>, <<1, -53, 31111127, 160942936>>,
       <<1, -53, 31000252, 254971205>>, <<1, -53, 30887017, 137127536>>, <<1, -53, 30771429, 243167784>>,
       <<1, -53, 30653498, 251625364>>, <<1, -53, 30533233, 157373118>>, <<1, -53, 30410643, 3004263>>,
       <<1, -53, 30285736, 147080636>>, <<1, -53, 30158523, 190200010>>, <<1, -53, 30029014, 48543484>>,
       <<1, -53, 29897217, 222112878>>, <<1, -53, 29763144, 183916404>>, <<1, -53, 29626804, 258811657>>,
       <<1, -53, 29488209, 12684185>>, <<1, -53, 29347367, 131283401>>, <<1, -53, 29204291, 4087747>>,
       <<1, -53, 29058990, 140004522>>, <<1, -53, 28911477, 19663503>>, <<1, -53, 28761761, 242674398>>,
       <<1, -53, 28609856, 111478079>>, <<1, -53, 28455772, 47032647>>, <<1, -53, 28299520, 246399632>>,
       <<1, -53, 28141114, 145633246>>, <<1, -53, 27980565, 30149838>>, <<1, -53, 27817884, 229174952>>,
       <<1, -53, 27653086, 41751539>>, <<1, -53, 27486181, 152405831>>, <<1, -53, 27317183, 214971670>>,
       <<1, -53, 27146105, 194507945>>, <<1, -53, 26972960, 98600077>>, <<1, -53, 26797760, 245529110>>,
       <<1, -53, 26620520, 190260370>>, <<1, -53, 26441253, 66347984>>, <<1, -53, 26259972, 48788053>>,
       <<1, -53, 26076691, 85304103>>, <<1, -53, 25891424, 164500353>>, <<1, -53, 25704186, 47140922>>,
       <<1, -53, 25514990, 71167762>>, <<1, -53, 25323851, 77667385>>, <<1, -53, 25130783, 215882654>>,
       <<1, -53, 24935802, 137608901>>, <<1, -53, 24738922, 70635142>>, <<1, -53, 24540158, 13134215>>,
       <<1, -53, 24339525, 1791695>>, <<1, -53, 24137038, 111496510>>, <<1, -53, 23932713, 186593098>>,
       <<1, -53, 23726566, 109001678>>, <<1, -53, 23518612, 66335601>>, <<1, -53, 23308867, 14709523>>,
       <<1, -53, 23097346, 215286557>>, <<1, -53, 22884067, 160209961>>, <<1, -53, 22669045, 182886569>>,
       <<1, -53, 22452297, 115477463>>, <<1, -53, 22233839, 93869650>>, <<1, -53, 22013688, 20467669>>,
       <<1, -53, 21791860, 100724467>>, <<1, -53, 21568373, 37492255>>, <<1, -53, 21343243, 104419044>>,
       <<1, -53, 21116488, 71858881>>, <<1, -53, 20888125, 11827727>>, <<1, -53, 20658171, 29215038>>,
       <<1, -53, 20426643, 261428204>>, <<1, -53, 20193561, 72728246>>, <<1, -53, 19958940, 201352999>>,
       <<1, -53, 19722800, 74799712>>, <<1, -53, 19485157, 225378875>>, <<1, -53, 19246031, 142363004>>,
       <<1, -53, 19005439, 150664821>>, <<1, -53, 18763400, 68287767>>, <<1, -53, 18519932, 11257764>>,
       <<1, -53, 18275053, 124811036>>, <<1, -53, 18028783, 46144094>>, <<1, -53, 17781139, 246209842>>,
       <<1, -53, 17532142, 150285979>>, <<1, -53, 17281810, 16637718>>, <<1, -53, 17030161, 130823708>>,
       <<1, -53, 16777216, 4>>, <<1, -54, 33045985, 194717553>>, <<1, -54, 32535022, 233808106>>,
       <<1, -54, 32021582, 93595575>>, <<1, -54, 31505703, 69488761>>, <<1, -54, 30987424, 238311219>>,
       <<1, -54, 30466786, 189062660>>, <<1, -54, 29943828, 95853905>>, <<1, -54, 29418589, 180225473>>,
       <<1, -54, 28891110, 173462647>>, <<1, -54, 28361431, 121083997>>, <<1, -54, 27829592, 113584870>>,
       <<1, -54, 27295634, 17177296>>, <<1, -54, 26759597, 9833060>>, <<1, -54, 26221522, 43581372>>,
       <<1, -54, 25681450, 112109919>>, <<1, -54, 25139422, 249927303>>, <<1, -54, 24595480, 263086619>>,
       <<1, -54, 24049665, 265212741>>, <<1, -54, 23502019, 139784479>>, <<1, -54, 22952583, 76155891>>,
       <<1, -54, 22401399, 31832768>>, <<1, -54, 21848509, 52715>>, <<1, -54, 21293955, 8927100>>,
       <<1, -54, 20737779, 120580435>>, <<1, -54, 20180024, 161851435>>, <<1, -54, 19620732, 260298175>>,
       <<1, -54, 19059947, 38023525>>, <<1, -54, 18497709, 221417012>>, <<1, -54, 17934063, 224362829>>,
       <<1, -54, 17369052, 26412687>>, <<1, -54, 16802717, 171908479>>, <<1, -55, 32470207, 48544034>>,
       <<1, -55, 31332506, 93649892>>, <<1, -55, 30192419, 114148993>>, <<1, -55, 29050033, 62268785>>,
       <<1, -55, 27905434, 205674761>>, <<1, -55, 26758711, 51950077>>, <<1, -55, 25609949, 225862218>>,
       <<1, -55, 24459238, 51658300>>, <<1, -55, 23306663, 235631531>>, <<1, -55, 22152314, 179975128>>,
       <<1, -55, 20996278, 128471934>>, <<1, -55, 19838643, 90955154>>, <<1, -55, 18679497, 109944361>>,
       <<1, -55, 17518928, 258843348>>, <<1, -56, 32714052, 206529281>>, <<1, -56, 30387756, 82799882>>,
       <<1, -56, 28059145, 188503912>>, <<1, -56, 25728398, 76082556>>, <<1, -56, 23395691, 146964749>>,
       <<1, -56, 21061203, 37326458>>, <<1, -56, 18725110, 225071361>>, <<1, -57, 32775185, 25862860>>,
       <<1, -57, 28097652, 149932379>>, <<1, -57, 23417980, 74010029>>, <<1, -57, 18736524, 167238674>>,
       <<1, -58, 28107284, 59820802>>, <<1, -58, 18739378, 193584684>>, <<1, -59, 18740092, 76893045>> >>

\* Math.cos(angle * Math.PI / 180) for angle = 0, 0.5, 1, ..., 359.5
CosHalfDegrees ==
    << <<0, -52, 16777216, 0>>, <<0, -53, 33553154, 93964749>>, <<0, -53, 33549321, 133541770>>,
       <<0, -53, 33542933, 197083765>>, <<0, -53, 33533991, 146736487>>, <<0, -53, 33522495, 165299703>>,
       <<0, -53, 33508446, 219342365>>, <<0, -53, 33491846, 59184714>>, <<0, -53, 33472695, 24182774>>,
       <<0, -53, 33450994, 237396143>>, <<0, -53, 33426747, 68687266>>, <<0, -53, 33399954, 13735846>>,
       <<0, -53, 33370617, 83388358>>, <<0, -53, 33338739, 72051799>>, <<0, -53, 33304322, 94518923>>,
       <<0, -53, 33267369, 49047707>>, <<0, -53, 33227882, 154178682>>, <<0, -53, 33185865, 143371036>>,
       <<0, -53, 33141321, 70247516>>, <<0, -53, 33094253, 40093554>>, <<0, -53, 33044664, 209787927>>,
       <<0, -53, 32992559, 250858571>>, <<0, -53, 32937942, 154711746>>, <<0, -53, 32880816, 232550927>>,
       <<0, -53, 32821187, 41549952>>, <<0, -53, 32759057, 263812278>>, <<0, -53, 32694434, 21923599>>,
       <<0, -53, 32627320, 100080590>>, <<0, -53, 32557721, 259635749>>, <<0, -53, 32485644, 44299278>>,
       <<0, -53, 32411092, 122208021>>, <<0, -53, 32334072, 138329601>>, <<0, -53, 32254590, 56523648>>,
       <<0, -53, 32172651, 159421888>>, <<0, -53, 32088262, 242998047>>, <<0, -53, 32001430, 153311201>>,
       <<0, -53, 31912161, 54809855>>, <<0, -53, 31820461, 161761316>>, <<0, -53, 31726338, 201241803>>,
       <<0, -53, 31629799, 218300063>>, <<0, -53, 31530852, 38939932>>, <<0, -53, 31429503, 75276413>>,
       <<0, -53, 31325760, 251639813>>, <<0, -53, 31219633, 4417970>>, <<0, -53, 31111127, 160942936>>,
       <<0, -53, 31000252, 254971206>>, <<0, -53, 30887017, 137127535>>, <<0, -53, 30771429, 243167784>>,
       <<0, -53, 30653498, 251625365>>, <<0, -53, 30533233, 157373118>>, <<0, -53, 30410643, 3004263>>,
       <<0, -53, 30285736, 147080635>>, <<0, -53, 30158523, 190200010>>, <<0, -53, 30029014, 48543482>>,
       <<0, -53, 29897217, 222112877>>, <<0, -53, 29763144, 183916401>>, <<0, -53, 29626804, 258811656>>,
       <<0, -53, 29488209, 12684181>>, <<0, -53, 29347367, 131283398>>, <<0, -53, 29204291, 4087746>>,
       <<0, -53, 29058990, 140004523>>, <<0, -53, 28911477, 19663506>>, <<0, -53, 28761761, 242674398>>,
       <<0, -53, 28609856, 111478080>>, <<0, -53, 28455772, 47032645>>, <<0, -53, 28299520, 246399632>>,
       <<0, -53, 28141114, 145633244>>, <<0, -53, 27980565, 30149837>>, <<0, -53, 27817884, 229174948>>,
       <<0, -53, 27653086, 41751538>>, <<0, -53, 27486181, 152405831>>, <<0, -53, 27317183, 214971667>>,
       <<0, -53, 27146105, 194507944>>, <<0, -53, 26972960, 98600073>>, <<0, -53, 26797760, 245529108>>,
       <<0, -53, 26620520, 190260370>>, <<0, -53, 26441253, 66347986>>, <<0, -53, 26259972, 48788052>>,
       <<0, -53, 26076691, 85304104>>, <<0, -53, 25891424, 164500356>>, <<0, -53, 25704186, 47140921>>,
       <<0, -53, 25514990, 71167763>>, <<0, -53, 25323851, 77667384>>, <<0, -53, 25130783, 215882655>>,
       <<0, -53, 24935802, 137608898>>, <<0, -53, 24738922, 70635140>>, <<0, -53, 24540158, 13134211>>,
       <<0, -53, 24339525, 1791693>>, <<0, -53, 24137038, 111496505>>, <<0, -53, 23932713, 186593094>>,
       <<0, -53, 23726566, 109001677>>, <<0, -53, 23518612, 66335602>>, <<0, -53, 23308867, 14709521>>,
       <<0, -53, 23097346, 215286557>>, <<0, -53, 22884067, 160209963>>, <<0, -53, 22669045, 182886567>>,
       <<0, -53, 22452297, 115477464>>, <<0, -53, 22233839, 93869647>>, <<0, -53, 22013688, 20467668>>,
       <<0, -53, 21791860, 100724461>>, <<0, -53, 21568373, 37492253>>, <<0, -53, 21343243, 104419044>>,
       <<0, -53, 21116488, 71858878>>, <<0, -53, 20888125, 11827727>>, <<0, -53, 20658171, 29215033>>,
       <<0, -53, 20426643, 261428202>>, <<0, -53, 20193561, 72728247>>, <<0, -53, 19958940, 201353002>>,
       <<0, -53, 19722800, 74799710>>, <<0, -53, 19485157, 225378877>>, <<0, -53, 19246031, 142363001>>,
       <<0, -53, 19005439, 150664820>>, <<0, -53, 18763400, 68287762>>, <<0, -53, 18519932, 11257769>>,
       <<0, -53, 18275053, 124811038>>, <<0, -53, 18028783, 46144091>>, <<0, -53, 17781139, 246209834>>,
       <<0, -53, 17532142, 150285981>>, <<0, -53, 17281810, 16637717>>, <<0, -53, 17030161, 130823702>>,
       <<0, -53, 16777216, 1>>, <<0, -54, 33045985, 194717550>>, <<0, -54, 32535022, 233808110>>,
       <<0, -54, 32021582, 93595569>>, <<0, -54, 31505703, 69488762>>, <<0, -54, 30987424, 238311227>>,
       <<0, -54, 30466786, 189062657>>, <<0, -54, 29943828, 95853891>>, <<0, -54, 29418589, 180225481>>,
       <<0, -54, 28891110, 173462648>>, <<0, -54, 28361431, 121083987>>, <<0, -54, 27829592, 113584849>>,
       <<0, -54, 27295634, 17177297>>, <<0, -54, 26759597, 9833053>>, <<0, -54, 26221522, 43581358>>,
       <<0, -54, 25681450, 112109924>>, <<0, -54, 25139422, 249927296>>, <<0, -54, 24595480, 263086620>>,
       <<0, -54, 24049665, 265212734>>, <<0, -54, 23502019, 139784475>>, <<0, -54, 22952583, 76155895>>,
       <<0, -54, 22401399, 31832765>>, <<0, -54, 21848509, 52701>>, <<0, -54, 21293955, 8927104>>,
       <<0, -54, 20737779, 120580432>>, <<0, -54, 20180024, 161851425>>, <<0, -54, 19620732, 260298184>>,
       <<0, -54, 19059947, 38023522>>, <<0, -54, 18497709, 221417001>>, <<0, -54, 17934063, 224362810>>,
       <<0, -54, 17369052, 26412688>>, <<0, -54, 16802717, 171908472>>, <<0, -55, 32470207, 48544035>>,
       <<0, -55, 31332506, 93649870>>, <<0, -55, 30192419, 114148978>>, <<0, -55, 29050033, 62268786>>,
       <<0, -55, 27905434, 205674746>>, <<0, -55, 26758711, 51950110>>, <<0, -55, 25609949, 225862227>>,
       <<0, -55, 24459238, 51658286>>, <<0, -55, 23306663, 235631500>>, <<0, -55, 22152314, 179975145>>,
       <<0, -55, 20996278, 128471927>>, <<0, -55, 19838643, 90955132>>, <<0, -55, 18679497, 109944354>>,
       <<0, -55, 17518928, 258843349>>, <<0, -56, 32714052, 206529236>>, <<0, -56, 30387756, 82799853>>,
       <<0, -56, 28059145, 188503915>>, <<0, -56, 25728398, 76082526>>, <<0, -56, 23395691, 146964736>>,
       <<0, -56, 21061203, 37326413>>, <<0, -56, 18725110, 225071411>>, <<0, -57, 32775185, 25862866>>,
       <<0, -57, 28097652, 149932321>>, <<0, -57, 23417980, 74010162>>, <<0, -57, 18736524, 167238711>>,
       <<0, -58, 28107284, 59820685>>, <<0, -58, 18739378, 193584375>>, <<0, -59, 18740092, 76893195>>,
       <<0, -106, 18506339, 51665927>>, <<1, -59, 18740092, 76893125>>, <<1, -58, 18739378, 193584404>>,
       <<1, -58, 28107284, 59820650>>, <<1, -57, 18736524, 167238661>>, <<1, -57, 23417980, 74010113>>,
       <<1, -57, 28097652, 149932271>>, <<1, -57, 32775185, 25862880>>, <<1, -56, 18725110, 225071402>>,
       <<1, -56, 21061203, 37326404>>, <<1, -56, 23395691, 146964743>>, <<1, -56, 25728398, 76082518>>,
       <<1, -56, 28059145, 188503906>>, <<1, -56, 30387756, 82799860>>, <<1, -56, 32714052, 206529227>>,
       <<1, -55, 17518928, 258843337>>, <<1, -55, 18679497, 109944342>>, <<1, -55, 19838643, 90955120>>,
       <<1, -55, 20996278, 128471931>>, <<1, -55, 22152314, 179975141>>, <<1, -55, 23306663, 235631496>>,
       <<1, -55, 24459238, 51658289>>, <<1, -55, 25609949, 225862223>>, <<1, -55, 26758711, 51950098>>,
       <<1, -55, 27905434, 205674734>>, <<1, -55, 29050033, 62268782>>, <<1, -55, 30192419, 114148974>>,
       <<1, -55, 31332506, 93649857>>, <<1, -55, 32470207, 48544031>>, <<1, -54, 16802717, 171908470>>,
       <<1, -54, 17369052, 26412690>>, <<1, -54, 17934063, 224362808>>, <<1, -54, 18497709, 221416999>>,
       <<1, -54, 19059947, 38023524>>, <<1, -54, 19620732, 260298182>>, <<1, -54, 20180024, 161851419>>,
       <<1, -54, 20737779, 120580430>>, <<1, -54, 21293955, 8927102>>, <<1, -54, 21848509, 52695>>,
       <<1, -54, 22401399, 31832763>>, <<1, -54, 22952583, 76155893>>, <<1, -54, 23502019, 139784477>>,
       <<1, -54, 24049665, 265212732>>, <<1, -54, 24595480, 263086618>>, <<1, -54, 25139422, 249927298>>,
       <<1, -54, 25681450, 112109922>>, <<1, -54, 26221522, 43581352>>, <<1, -54, 26759597, 9833048>>,
       <<1, -54, 27295634, 17177294>>, <<1, -54, 27829592, 113584847>>, <<1, -54, 28361431, 121083985>>,
       <<1, -54, 28891110, 173462650>>, <<1, -54, 29418589, 180225482>>, <<1, -54, 29943828, 95853893>>,
       <<1, -54, 30466786, 189062655>>, <<1, -54, 30987424, 238311221>>, <<1, -54, 31505703, 69488756>>,
       <<1, -54, 32021582, 93595570>>, <<1, -54, 32535022, 233808108>>, <<1, -54, 33045985, 194717548>>,
       <<1, -54, 33554431, 268435452>>, <<1, -53, 17030161, 130823703>>, <<1, -53, 17281810, 16637716>>,
       <<1, -53, 17532142, 150285980>>, <<1, -53, 17781139, 246209833>>, <<1, -53, 18028783, 46144088>>,
       <<1, -53, 18275053, 124811037>>, <<1, -53, 18519932, 11257768>>, <<1, -53, 18763400, 68287761>>,
       <<1, -53, 19005439, 150664818>>, <<1, -53, 19246031, 142362998>>, <<1, -53, 19485157, 225378876>>,
       <<1, -53, 19722800, 74799709>>, <<1, -53, 19958940, 201353000>>, <<1, -53, 20193561, 72728247>>,
       <<1, -53, 20426643, 261428202>>, <<1, -53, 20658171, 29215033>>, <<1, -53, 20888125, 11827725>>,
       <<1, -53, 21116488, 71858876>>, <<1, -53, 21343243, 104419042>>, <<1, -53, 21568373, 37492253>>,
       <<1, -53, 21791860, 100724461>>, <<1, -53, 22013688, 20467670>>, <<1, -53, 22233839, 93869648>>,
       <<1, -53, 22452297, 115477464>>, <<1, -53, 22669045, 182886567>>, <<1, -53, 22884067, 160209962>>,
       <<1, -53, 23097346, 215286555>>, <<1, -53, 23308867, 14709518>>, <<1, -53, 23518612, 66335602>>,
       <<1, -53, 23726566, 109001676>>, <<1, -53, 23932713, 186593093>>, <<1, -53, 24137038, 111496505>>,
       <<1, -53, 24339525, 1791693>>, <<1, -53, 24540158, 13134210>>, <<1, -53, 24738922, 70635140>>,
       <<1, -53, 24935802, 137608896>>, <<1, -53, 25130783, 215882655>>, <<1, -53, 25323851, 77667383>>,
       <<1, -53, 25514990, 71167763>>, <<1, -53, 25704186, 47140920>>, <<1, -53, 25891424, 164500354>>,
       <<1, -53, 26076691, 85304102>>, <<1, -53, 26259972, 48788052>>, <<1, -53, 26441253, 66347985>>,
       <<1, -53, 26620520, 190260371>>, <<1, -53, 26797760, 245529109>>, <<1, -53, 26972960, 98600073>>,
       <<1, -53, 27146105, 194507943>>, <<1, -53, 27317183, 214971666>>, <<1, -53, 27486181, 152405829>>,
       <<1, -53, 27653086, 41751536>>, <<1, -53, 27817884, 229174948>>, <<1, -53, 27980565, 30149836>>,
       <<1, -53, 28141114, 145633245>>, <<1, -53, 28299520, 246399632>>, <<1, -53, 28455772, 47032645>>,
       <<1, -53, 28609856, 111478080>>, <<1, -53, 28761761, 242674397>>, <<1, -53, 28911477, 19663504>>,
       <<1, -53, 29058990, 140004523>>, <<1, -53, 29204291, 4087746>>, <<1, -53, 29347367, 131283398>>,
       <<1, -53, 29488209, 12684180>>, <<1, -53, 29626804, 258811654>>, <<1, -53, 29763144, 183916401>>,
       <<1, -53, 29897217, 222112876>>, <<1, -53, 30029014, 48543481>>, <<1, -53, 30158523, 190200010>>,
       <<1, -53, 30285736, 147080635>>, <<1, -53, 30410643, 3004263>>, <<1, -53, 30533233, 157373117>>,
       <<1, -53, 30653498, 251625364>>, <<1, -53, 30771429, 243167783>>, <<1, -53, 30887017, 137127533>>,
       <<1, -53, 31000252, 254971206>>, <<1, -53, 31111127, 160942935>>, <<1, -53, 31219633, 4417970>>,
       <<1, -53, 31325760, 251639813>>, <<1, -53, 31429503, 75276412>>, <<1, -53, 31530852, 38939931>>,
       <<1, -53, 31629799, 218300062>>, <<1, -53, 31726338, 201241802>>, <<1, -53, 31820461, 161761316>>,
       <<1, -53, 31912161, 54809855>>, <<1, -53, 32001430, 153311200>>, <<1, -53, 32088262, 242998047>>,
       <<1, -53, 32172651, 159421888>>, <<1, -53, 32254590, 56523646>>, <<1, -53, 32334072, 138329601>>,
       <<1, -53, 32411092, 122208020>>, <<1, -53, 32485644, 44299278>>, <<1, -53, 32557721, 259635749>>,
       <<1, -53, 32627320, 100080590>>, <<1, -53, 32694434, 21923599>>, <<1, -53, 32759057, 263812277>>,
       <<1, -53, 32821187, 41549952>>, <<1, -53, 32880816, 232550926>>, <<1, -53, 32937942, 154711746>>,
       <<1, -53, 32992559, 250858570>>, <<1, -53, 33044664, 209787927>>, <<1, -53, 33094253, 40093553>>,
       <<1, -53, 33141321, 70247515>>, <<1, -53, 33185865, 143371036>>, <<1, -53, 33227882, 154178681>>,
       <<1, -53, 33267369, 49047707>>, <<1, -53, 33304322, 94518923>>, <<1, -53, 33338739, 72051799>>,
       <<1, -53, 33370617, 83388358>>, <<1, -53, 33399954, 13735846>>, <<1, -53, 33426747, 68687266>>,
       <<1, -53, 33450994, 237396143>>, <<1, -53, 33472695, 24182774>>, <<1, -53, 33491846, 59184714>>,
       <<1, -53, 33508446, 219342365>>, <<1, -53, 33522495, 165299703>>, <<1, -53, 33533991, 146736487>>,
       <<1, -53, 33542933, 197083765>>, <<1, -53, 33549321, 133541770>>, <<1, -53, 33553154, 93964749>>,
       <<1, -52, 16777216, 0>>, <<1, -53, 33553154, 93964749>>, <<1, -53, 33549321, 133541770>>,
       <<1, -53, 33542933, 197083765>>, <<1, -53, 33533991, 146736487>>, <<1, -53, 33522495, 165299703>>,
       <<1, -53, 33508446, 219342365>>, <<1, -53, 33491846, 59184714>>, <<1, -53, 33472695, 24182775>>,
       <<1, -53, 33450994, 237396143>>, <<1, -53, 33426747, 68687266>>, <<1, -53, 33399954, 13735845>>,
       <<1, -53, 33370617, 83388359>>, <<1, -53, 33338739, 72051799>>, <<1, -53, 33304322, 94518923>>,
       <<1, -53, 33267369, 49047708>>, <<1, -53, 33227882, 154178681>>, <<1, -53, 33185865, 143371036>>,
       <<1, -53, 33141321, 70247516>>, <<1, -53, 33094253, 40093554>>, <<1, -53, 33044664, 209787927>>,
       <<1, -53, 32992559, 250858571>>, <<1, -53, 32937942, 154711746>>, <<1, -53, 32880816, 232550928>>,
       <<1, -53, 32821187, 41549952>>, <<1, -53, 32759057, 263812278>>, <<1, -53, 32694434, 21923599>>,
       <<1, -53, 32627320, 100080590>>, <<1, -53, 32557721, 259635749>>, <<1, -53, 32485644, 44299278>>,
       <<1, -53, 32411092, 122208022>>, <<1, -53, 32334072, 138329602>>, <<1, -53, 32254590, 56523648>>,
       <<1, -53, 32172651, 159421889>>, <<1, -53, 32088262, 242998048>>, <<1, -53, 32001430, 153311201>>,
       <<1, -53, 31912161, 54809855>>, <<1, -53, 31820461, 161761317>>, <<1, -53, 31726338, 201241802>>,
       <<1, -53, 31629799, 218300064>>, <<1, -53, 31530852, 38939932>>, <<1, -53, 31429503, 75276413>>,
       <<1, -53, 31325760, 251639813>>, <<1, -53, 31219633, 4417971>>, <<1, -53, 31111127, 160942936>>,
       <<1, -53, 31000252, 254971208>>, <<1, -53, 30887017, 137127535>>, <<1, -53, 30771429, 243167784>>,
       <<1, -53, 30653498, 251625367>>, <<1, -53, 30533233, 157373118>>, <<1, -53, 30410643, 3004264>>,
       <<1, -53, 30285736, 147080634>>, <<1, -53, 30158523, 190200011>>, <<1, -53, 30029014, 48543482>>,
       <<1, -53, 29897217, 222112879>>, <<1, -53, 29763144, 183916402>>, <<1, -53, 29626804, 258811655>>,
       <<1, -53, 29488209, 12684181>>, <<1, -53, 29347367, 131283399>>, <<1, -53, 29204291, 4087747>>,
       <<1, -53, 29058990, 140004522>>, <<1, -53, 28911477, 19663507>>, <<1, -53, 28761761, 242674398>>,
       <<1, -53, 28609856, 111478081>>, <<1, -53, 28455772, 47032646>>, <<1, -53, 28299520, 246399633>>,
       <<1, -53, 28141114, 145633244>>, <<1, -53, 27980565, 30149835>>, <<1, -53, 27817884, 229174950>>,
       <<1, -53, 27653086, 41751537>>, <<1, -53, 27486181, 152405833>>, <<1, -53, 27317183, 214971667>>,
       <<1, -53, 27146105, 194507945>>, <<1, -53, 26972960, 98600072>>, <<1, -53, 26797760, 245529110>>,
       <<1, -53, 26620520, 190260370>>, <<1, -53, 26441253, 66347988>>, <<1, -53, 26259972, 48788053>>,
       <<1, -53, 26076691, 85304103>>, <<1, -53, 25891424, 164500358>>, <<1, -53, 25704186, 47140921>>,
       <<1, -53, 25514990, 71167764>>, <<1, -53, 25323851, 77667382>>, <<1, -53, 25130783, 215882657>>,
       <<1, -53, 24935802, 137608898>>, <<1, -53, 24738922, 70635144>>, <<1, -53, 24540158, 13134211>>,
       <<1, -53, 24339525, 1791695>>, <<1, -53, 24137038, 111496504>>, <<1, -53, 23932713, 186593094>>,
       <<1, -53, 23726566, 109001678>>, <<1, -53, 23518612, 66335601>>, <<1, -53, 23308867, 14709523>>,
       <<1, -53, 23097346, 215286557>>, <<1, -53, 22884067, 160209967>>, <<1, -53, 22669045, 182886568>>,
       <<1, -53, 22452297, 115477466>>, <<1, -53, 22233839, 93869647>>, <<1, -53, 22013688, 20467671>>,
       <<1, -53, 21791860, 100724466>>, <<1, -53, 21568373, 37492254>>, <<1, -53, 21343243, 104419043>>,
       <<1, -53, 21116488, 71858875>>, <<1, -53, 20888125, 11827727>>, <<1, -53, 20658171, 29215031>>,
       <<1, -53, 20426643, 261428204>>, <<1, -53, 20193561, 72728246>>, <<1, -53, 19958940, 201353005>>,
       <<1, -53, 19722800, 74799711>>, <<1, -53, 19485157, 225378881>>, <<1, -53, 19246031, 142363003>>,
       <<1, -53, 19005439, 150664820>>, <<1, -53, 18763400, 68287766>>, <<1, -53, 18519932, 11257770>>,
       <<1, -53, 18275053, 124811036>>, <<1, -53, 18028783, 46144094>>, <<1, -53, 17781139, 246209835>>,
       <<1, -53, 17532142, 150285978>>, <<1, -53, 17281810, 16637718>>, <<1, -53, 17030161, 130823701>>,
       <<1, -53, 16777216, 4>>, <<1, -54, 33045985, 194717552>>, <<1, -54, 32535022, 233808105>>,
       <<1, -54, 32021582, 93595574>>, <<1, -54, 31505703, 69488760>>, <<1, -54, 30987424, 238311232>>,
       <<1, -54, 30466786, 189062659>>, <<1, -54, 29943828, 95853904>>, <<1, -54, 29418589, 180225486>>,
       <<1, -54, 28891110, 173462646>>, <<1, -54, 28361431, 121083996>>, <<1, -54, 27829592, 113584855>>,
       <<1, -54, 27295634, 17177295>>, <<1, -54, 26759597, 9833044>>, <<1, -54, 26221522, 43581356>>,
       <<1, -54, 25681450, 112109918>>, <<1, -54, 25139422, 249927302>>, <<1, -54, 24595480, 263086618>>,
       <<1, -54, 24049665, 265212740>>, <<1, -54, 23502019, 139784478>>, <<1, -54, 22952583, 76155905>>,
       <<1, -54, 22401399, 31832767>>, <<1, -54, 21848509, 52699>>, <<1, -54, 21293955, 8927114>>,
       <<1, -54, 20737779, 120580434>>, <<1, -54, 20180024, 161851434>>, <<1, -54, 19620732, 260298190>>,
       <<1, -54, 19059947, 38023524>>, <<1, -54, 18497709, 221416996>>, <<1, -54, 17934063, 224362812>>,
       <<1, -54, 17369052, 26412686>>, <<1, -54, 16802717, 171908478>>, <<1, -55, 32470207, 48544031>>,
       <<1, -55, 31332506, 93649858>>, <<1, -55, 30192419, 114148990>>, <<1, -55, 29050033, 62268783>>,
       <<1, -55, 27905434, 205674758>>, <<1, -55, 26758711, 51950106>>, <<1, -55, 25609949, 225862247>>,
       <<1, -55, 24459238, 51658298>>, <<1, -55, 23306663, 235631497>>, <<1, -55, 22152314, 179975157>>,
       <<1, -55, 20996278, 128471931>>, <<1, -55, 19838643, 90955121>>, <<1, -55, 18679497, 109944327>>,
       <<1, -55, 17518928, 258843346>>, <<1, -56, 32714052, 206529213>>, <<1, -56, 30387756, 82799877>>,
       <<1, -56, 28059145, 188503908>>, <<1, -56, 25728398, 76082551>>, <<1, -56, 23395691, 146964744>>,
       <<1, -56, 21061203, 37326454>>, <<1, -56, 18725110, 225071420>>, <<1, -57, 32775185, 25862979>>,
       <<1, -57, 28097652, 149932370>>, <<1, -57, 23417980, 74010148>>, <<1, -57, 18736524, 167238793>>,
       <<1, -58, 28107284, 59820784>>, <<1, -58, 18739378, 193584410>>, <<1, -59, 18740092, 76893010>>,
       <<1, -105, 27759508, 211716618>>, <<0, -59, 18740092, 76893310>>, <<0, -58, 18739378, 193584304>>,
       <<0, -58, 28107284, 59820678>>, <<0, -57, 18736524, 167238740>>, <<0, -57, 23417980, 74010095>>,
       <<0, -57, 28097652, 149932318>>, <<0, -57, 32775185, 25862799>>, <<0, -56, 18725110, 225071394>>,
       <<0, -56, 21061203, 37326364>>, <<0, -56, 23395691, 146964718>>, <<0, -56, 25728398, 76082461>>,
       <<0, -56, 28059145, 188503881>>, <<0, -56, 30387756, 82799851>>, <<0, -56, 32714052, 206529250>>,
       <<0, -55, 17518928, 258843364>>, <<0, -55, 18679497, 109944346>>, <<0, -55, 19838643, 90955139>>,
       <<0, -55, 20996278, 128471918>>, <<0, -55, 22152314, 179975144>>, <<0, -55, 23306663, 235631484>>,
       <<0, -55, 24459238, 51658285>>, <<0, -55, 25609949, 225862203>>, <<0, -55, 26758711, 51950093>>,
       <<0, -55, 27905434, 205674714>>, <<0, -55, 29050033, 62268770>>, <<0, -55, 30192419, 114148978>>,
       <<0, -55, 31332506, 93649845>>, <<0, -55, 32470207, 48544019>>, <<0, -54, 16802717, 171908471>>,
       <<0, -54, 17369052, 26412695>>, <<0, -54, 17934063, 224362806>>, <<0, -54, 18497709, 221417005>>,
       <<0, -54, 19059947, 38023518>>, <<0, -54, 19620732, 260298183>>, <<0, -54, 20180024, 161851413>>,
       <<0, -54, 20737779, 120580428>>, <<0, -54, 21293955, 8927107>>, <<0, -54, 21848509, 52693>>,
       <<0, -54, 22401399, 31832761>>, <<0, -54, 22952583, 76155883>>, <<0, -54, 23502019, 139784471>>,
       <<0, -54, 24049665, 265212719>>, <<0, -54, 24595480, 263086612>>, <<0, -54, 25139422, 249927296>>,
       <<0, -54, 25681450, 112109927>>, <<0, -54, 26221522, 43581350>>, <<0, -54, 26759597, 9833053>>,
       <<0, -54, 27295634, 17177303>>, <<0, -54, 27829592, 113584849>>, <<0, -54, 28361431, 121083990>>,
       <<0, -54, 28891110, 173462640>>, <<0, -54, 29418589, 180225480>>, <<0, -54, 29943828, 95853884>>,
       <<0, -54, 30466786, 189062654>>, <<0, -54, 30987424, 238311212>>, <<0, -54, 31505703, 69488754>>,
       <<0, -54, 32021582, 93595554>>, <<0, -54, 32535022, 233808099>>, <<0, -54, 33045985, 194717546>>,
       <<0, -53, 16777216, 1>>, <<0, -53, 17030161, 130823705>>, <<0, -53, 17281810, 16637715>>,
       <<0, -53, 17532142, 150285982>>, <<0, -53, 17781139, 246209832>>, <<0, -53, 18028783, 46144091>>,
       <<0, -53, 18275053, 124811033>>, <<0, -53, 18519932, 11257767>>, <<0, -53, 18763400, 68287757>>,
       <<0, -53, 19005439, 150664817>>, <<0, -53, 19246031, 142363000>>, <<0, -53, 19485157, 225378872>>,
       <<0, -53, 19722800, 74799708>>, <<0, -53, 19958940, 201352996>>, <<0, -53, 20193561, 72728243>>,
       <<0, -53, 20426643, 261428201>>, <<0, -53, 20658171, 29215035>>, <<0, -53, 20888125, 11827724>>,
       <<0, -53, 21116488, 71858878>>, <<0, -53, 21343243, 104419047>>, <<0, -53, 21568373, 37492252>>,
       <<0, -53, 21791860, 100724464>>, <<0, -53, 22013688, 20467666>>, <<0, -53, 22233839, 93869647>>,
       <<0, -53, 22452297, 115477460>>, <<0, -53, 22669045, 182886566>>, <<0, -53, 22884067, 160209959>>,
       <<0, -53, 23097346, 215286554>>, <<0, -53, 23308867, 14709514>>, <<0, -53, 23518612, 66335598>>,
       <<0, -53, 23726566, 109001675>>, <<0, -53, 23932713, 186593095>>, <<0, -53, 24137038, 111496502>>,
       <<0, -53, 24339525, 1791693>>, <<0, -53, 24540158, 13134212>>, <<0, -53, 24738922, 70635139>>,
       <<0, -53, 24935802, 137608898>>, <<0, -53, 25130783, 215882652>>, <<0, -53, 25323851, 77667382>>,
       <<0, -53, 25514990, 71167759>>, <<0, -53, 25704186, 47140919>>, <<0, -53, 25891424, 164500356>>,
       <<0, -53, 26076691, 85304101>>, <<0, -53, 26259972, 48788051>>, <<0, -53, 26441253, 66347982>>,
       <<0, -53, 26620520, 190260368>>, <<0, -53, 26797760, 245529108>>, <<0, -53, 26972960, 98600075>>,
       <<0, -53, 27146105, 194507943>>, <<0, -53, 27317183, 214971668>>, <<0, -53, 27486181, 152405829>>,
       <<0, -53, 27653086, 41751537>>, <<0, -53, 27817884, 229174946>>, <<0, -53, 27980565, 30149840>>,
       <<0, -53, 28141114, 145633244>>, <<0, -53, 28299520, 246399630>>, <<0, -53, 28455772, 47032640>>,
       <<0, -53, 28609856, 111478081>>, <<0, -53, 28761761, 242674396>>, <<0, -53, 28911477, 19663501>>,
       <<0, -53, 29058990, 140004520>>, <<0, -53, 29204291, 4087745>>, <<0, -53, 29347367, 131283399>>,
       <<0, -53, 29488209, 12684179>>, <<0, -53, 29626804, 258811655>>, <<0, -53, 29763144, 183916402>>,
       <<0, -53, 29897217, 222112876>>, <<0, -53, 30029014, 48543478>>, <<0, -53, 30158523, 190200011>>,
       <<0, -53, 30285736, 147080634>>, <<0, -53, 30410643, 3004261>>, <<0, -53, 30533233, 157373114>>,
       <<0, -53, 30653498, 251625366>>, <<0, -53, 30771429, 243167782>>, <<0, -53, 30887017, 137127531>>,
       <<0, -53, 31000252, 254971207>>, <<0, -53, 31111127, 160942935>>, <<0, -53, 31219633, 4417970>>,
       <<0, -53, 31325760, 251639811>>, <<0, -53, 31429503, 75276412>>, <<0, -53, 31530852, 38939932>>,
       <<0, -53, 31629799, 218300062>>, <<0, -53, 31726338, 201241800>>, <<0, -53, 31820461, 161761317>>,
       <<0, -53, 31912161, 54809855>>, <<0, -53, 32001430, 153311199>>, <<0, -53, 32088262, 242998049>>,
       <<0, -53, 32172651, 159421888>>, <<0, -53, 32254590, 56523646>>, <<0, -53, 32334072, 138329599>>,
       <<0, -53, 32411092, 122208021>>, <<0, -53, 32485644, 44299277>>, <<0, -53, 32557721, 259635749>>,
       <<0, -53, 32627320, 100080589>>, <<0, -53, 32694434, 21923598>>, <<0, -53, 32759057, 263812278>>,
       <<0, -53, 32821187, 41549951>>, <<0, -53, 32880816, 232550928>>, <<0, -53, 32937942, 154711746>>,
       <<0, -53, 32992559, 250858570>>, <<0, -53, 33044664, 209787926>>, <<0, -53, 33094253, 40093554>>,
       <<0, -53, 33141321, 70247515>>, <<0, -53, 33185865, 143371035>>, <<0, -53, 33227882, 154178681>>,
       <<0, -53, 33267369, 49047707>>, <<0, -53, 33304322, 94518923>>, <<0, -53, 33338739, 72051799>>,
       <<0, -53, 33370617, 83388358>>, <<0, -53, 33399954, 13735845>>, <<0, -53, 33426747, 68687266>>,
       <<0, -53, 33450994, 237396143>>, <<0, -53, 33472695, 24182775>>, <<0, -53, 33491846, 59184714>>,
       <<0, -53, 33508446, 219342365>>, <<0, -53, 33522495, 165299703>>, <<0, -53, 33533991, 146736487>>,
       <<0, -53, 33542933, 197083765>>, <<0, -53, 33549321, 133541770>>, <<0, -53, 33553154, 93964749>> >>

\* Math.sin and Math.cos of the angle of h half degrees
MathSin(h) ==
    LET t == SinHalfDegrees[h + 1] IN FLiteral(t[1], t[2], t[3], t[4])
MathCos(h) ==
    LET t == CosHalfDegrees[h + 1] IN FLiteral(t[1], t[2], t[3], t[4])

\* Math.sqrt(3) and the literal 1.7
MathSqrt3 == FLiteral(0, -52, 29058990, 140004522)
OnePointSeven == FLiteral(0, -52, 28521267, 53687091)

(***************************************************************************)
(* What AsciiCube and AsciiTessarect share: createNewScreen and the        *)
(* map / filter / forEach of drawFrame for a class with CANVAS_SIZE = n,   *)
(* and the flatMap over EDGES.  drawLine and chooseASCII are the same text *)
(* in the three classes.                                                   *)
(***************************************************************************)
\* a screen that lacks its last row
NewScreenRowShort(n) == [y \in 0..(n - 2) |-> [x \in 0..(n - 1) |-> Blank]]

NewScreen(n) == [y \in 0..(n - 1) |-> [x \in 0..(n - 1) |-> Blank]]

PlotSamples(samples, seed, n) ==
    LET half == n \div 2
        shifted == [i \in 1..Len(samples) |->
                       <<samples[i][1] + half, samples[i][2] + half, samples[i][3]>>]
        inside(s) == s[1] >= 0 /\ s[1] < n /\ s[2] >= 0 /\ s[2] < n
        kept == SelectSeq(shifted, inside)
    IN  ForEachWrite(NewScreen(n), kept, 1, Len(kept), seed)

\* an edge [i0, i1] names two elements of the point list
EdgeInRange(edge, pts) == edge[1] + 1 \in DOMAIN pts /\ edge[2] + 1 \in DOMAIN pts

\* EDGES.flatMap(([i0, i1]) => drawLine(...projectedPoints[i0], ...projectedPoints[i1]))
\* from edge number n on, for edges that are in range
RECURSIVE EdgeSamples(_, _, _)
EdgeSamples(pts, edges, n) ==
    IF n > Len(edges) THEN <<>>
    ELSE LET p == pts[edges[n][1] + 1]
             q == pts[edges[n][2] + 1]
         IN  drawLine(p[1], p[2], q[1], q[2]) \o EdgeSamples(pts, edges, n + 1)

\* the body of drawFrame after the projection: the new screen, or TypeError
\* when spreading (destructuring) projectedPoints[i] throws for an index i
\* that is not in the list
PlotThrows(pts, edges) == \E k \in DOMAIN edges : ~EdgeInRange(edges[k], pts)

\* the same with the vertex samples put before the edge samples
PlotShapeVerticesFirst(pts, edges, seed, n) ==
    IF PlotThrows(pts, edges) THEN TypeError
    ELSE PlotSamples(VertexSamples(pts) \o EdgeSamples(pts, edges, 1), seed, n)

PlotShape(pts, edges, seed, n) ==
    IF PlotThrows(pts, edges) THEN TypeError
    ELSE PlotSamples(EdgeSamples(pts, edges, 1) \o VertexSamples(pts), seed, n)

\* the points as numbers
AsNumbers(pts) == [i \in 1..Len(pts) |-> [c \in 1..Len(pts[i]) |-> FromInt(pts[i][c])] \o <<>>] \o <<>>

(***************************************************************************)
(* AsciiCube: rotation about X, then about Y, then Math.round of every     *)
(* coordinate; projection with scale = FOV / (z + Z_OFFSET).  Angles are   *)
(* counted in half degrees.                                                *)
(***************************************************************************)
AsciiCube_CANVAS_SIZE == 40
AsciiCube_HALFCANVAS == AsciiCube_CANVAS_SIZE \div 2
AsciiCube_Z_OFFSET == FRound(FMul(FMul(MathSqrt3, FromInt(AsciiCube_HALFSIZE)), FromInt(5)))
AsciiCube_FOV == AsciiCube_CANVAS_SIZE * 2

\* [x, y*cosX - z*sinX, y*sinX + z*cosX]
AsciiCube_rotateX(p, h) ==
    <<p[1],
      FSub(FMul(p[2], MathCos(h)), FMul(p[3], MathSin(h))),
      FAdd(FMul(p[2], MathSin(h)), FMul(p[3], MathCos(h)))>>

\* [x*cosY+z*sinY, y, -x*sinY+z*cosY]
AsciiCube_rotateY(p, h) ==
    <<FAdd(FMul(p[1], MathCos(h)), FMul(p[3], MathSin(h))),
      p[2],
      FAdd(FMul(FNeg(p[1]), MathSin(h)), FMul(p[3], MathCos(h)))>>

\* _.map(Math.round)
RoundAll(p) == [c \in 1..Len(p) |-> FRound(p[c])] \o <<>>

AsciiCube_calculateRotation(hX, hY) ==
    LET base == AsNumbers(AsciiCube_BASE_POINTS)
    IN  [i \in 1..Len(base) |->
            RoundAll(AsciiCube_rotateY(AsciiCube_rotateX(base[i], hX), hY))] \o <<>>

\* one point of projectTo2D
AsciiCube_project(p) ==
    LET scale == FDiv(FromInt(AsciiCube_FOV), FromInt(p[3] + AsciiCube_Z_OFFSET))
    IN  <<FRound(FMul(FromInt(p[1]), scale)), FRound(FMul(FromInt(p[2]), scale))>>

AsciiCube_projectTo2D(pts) == [i \in 1..Len(pts) |-> AsciiCube_project(pts[i])] \o <<>>

AsciiCube_drawFrame(hX, hY, seed) ==
    PlotShape(AsciiCube_projectTo2D(AsciiCube_calculateRotation(hX, hY)),
              AsciiCube_EDGES, seed, AsciiCube_CANVAS_SIZE)

(***************************************************************************)
(* AsciiTessarect: rotations in the planes XY, YZ, ZW and WX, no rounding; *)
(* projection along w, then along z, then FOV and Math.round.              *)
(***************************************************************************)
AsciiTessarect_CANVAS_SIZE == 60
AsciiTessarect_HALFCANVAS == AsciiTessarect_CANVAS_SIZE \div 2
AsciiTessarect_Z_OFFSET ==
    FRound(FMul(FMul(MathSqrt3, FromInt(AsciiTessarect_HALFSIZE)), FromInt(5)))
\* an offset without the factors 2 and 5: the half edge, which w reaches
AsciiTessarect_W_OFFSET_HalfEdge == FRound(FromInt(AsciiTessarect_HALFSIZE))

AsciiTessarect_W_OFFSET == FRound(FromInt(2 * AsciiTessarect_HALFSIZE * 5))
AsciiTessarect_MAX_RADIUS_4D == AsciiTessarect_SIZE
AsciiTessarect_MAX_RADIUS_3D ==
    FMul(FromInt(AsciiTessarect_MAX_RADIUS_4D),
         FDiv(FromInt(AsciiTessarect_W_OFFSET),
              FromInt(AsciiTessarect_W_OFFSET - AsciiTessarect_MAX_RADIUS_4D)))
AsciiTessarect_MAX_RADIUS_2D_NORMAL ==
    FMul(AsciiTessarect_MAX_RADIUS_3D,
         FDiv(FromInt(AsciiTessarect_Z_OFFSET),
              FSub(FromInt(AsciiTessarect_Z_OFFSET), AsciiTessarect_MAX_RADIUS_3D)))
AsciiTessarect_FOV ==
    FMul(FDiv(FromInt(AsciiTessarect_HALFCANVAS), AsciiTessarect_MAX_RADIUS_2D_NORMAL),
         OnePointSeven)

\* [x*cosXY - y*sinXY, x*sinXY + y*cosXY, z, w]
AsciiTessarect_rotateXY(p, h) ==
    <<FSub(FMul(p[1], MathCos(h)), FMul(p[2], MathSin(h))),
      FAdd(FMul(p[1], MathSin(h)), FMul(p[2], MathCos(h))),
      p[3], p[4]>>

\* [x, y*cosYZ - z*sinYZ, y*sinYZ + z*cosYZ, w]
AsciiTessarect_rotateYZ(p, h) ==
    <<p[1],
      FSub(FMul(p[2], MathCos(h)), FMul(p[3], MathSin(h))),
      FAdd(FMul(p[2], MathSin(h)), FMul(p[3], MathCos(h))),
      p[4]>>

\* a ZW step with the sine terms exchanged: the rotation by the opposite angle
AsciiTessarect_rotateZWOpposite(p, h) ==
    <<p[1], p[2],
      FAdd(FMul(p[3], MathCos(h)), FMul(p[4], MathSin(h))),
      FSub(FMul(p[4], MathCos(h)), FMul(p[3], MathSin(h)))>>

\* [x, y, z*cosZW - w*sinZW, z*sinZW + w*cosZW]
AsciiTessarect_rotateZW(p, h) ==
    <<p[1], p[2],
      FSub(FMul(p[3], MathCos(h)), FMul(p[4], MathSin(h))),
      FAdd(FMul(p[3], MathSin(h)), FMul(p[4], MathCos(h)))>>

\* [w*sinWX + x*cosWX, y, z, w*cosWX - x*sinWX]
AsciiTessarect_rotateWX(p, h) ==
    <<FAdd(FMul(p[4], MathSin(h)), FMul(p[1], MathCos(h))),
      p[2], p[3],
      FSub(FMul(p[4], MathCos(h)), FMul(p[1], MathSin(h)))>>

\* the four rotations applied in the opposite order: WX first, XY last
AsciiTessarect_calculateRotationReversed(a) ==
    LET base == AsNumbers(AsciiTessarect_BASE_POINTS)
    IN  [i \in 1..Len(base) |->
            AsciiTessarect_rotateXY(
                AsciiTessarect_rotateYZ(
                    AsciiTessarect_rotateZW(
                        AsciiTessarect_rotateWX(base[i], a[4]), a[3]), a[2]), a[1])] \o <<>>

\* calculateRotation() for the angles a = <<angleXY, angleYZ, angleZW, angleWX>>
AsciiTessarect_calculateRotation(a) ==
    LET base == AsNumbers(AsciiTessarect_BASE_POINTS)
    IN  [i \in 1..Len(base) |->
            AsciiTessarect_rotateWX(
                AsciiTessarect_rotateZW(
                    AsciiTessarect_rotateYZ(
                        AsciiTessarect_rotateXY(base[i], a[1]), a[2]), a[3]), a[4])] \o <<>>

\* the three maps of projectTo2D, for one point
AsciiTessarect_foldW(p) ==
    LET scale == FDiv(FromInt(AsciiTessarect_W_OFFSET),
                      FAdd(p[4], FromInt(AsciiTessarect_W_OFFSET)))
    IN  <<FMul(p[1], scale), FMul(p[2], scale), FMul(p[3], scale)>>

AsciiTessarect_foldZ(p) ==
    LET scale == FDiv(FromInt(AsciiTessarect_Z_OFFSET),
                      FAdd(p[3], FromInt(AsciiTessarect_Z_OFFSET)))
    IN  <<FMul(p[1], scale), FMul(p[2], scale)>>

AsciiTessarect_scaleAndRound(p) ==
    <<FRound(FMul(AsciiTessarect_FOV, p[1])), FRound(FMul(AsciiTessarect_FOV, p[2]))>>

AsciiTessarect_projectTo2D(pts) ==
    [i \in 1..Len(pts) |->
        AsciiTessarect_scaleAndRound(AsciiTessarect_foldZ(AsciiTessarect_foldW(pts[i])))] \o <<>>

\* drawFrame() with the table `edges` in AsciiTessarect.EDGES
AsciiTessarect_drawFrame(a, edges, seed) ==
    PlotShape(AsciiTessarect_projectTo2D(AsciiTessarect_calculateRotation(a)),
              edges, seed, AsciiTessarect_CANVAS_SIZE)

\* drawFrame() throws: the projected points are as many as BASE_POINTS
AsciiTessarect_drawFrameThrows(edges) == PlotThrows(AsciiTessarect_BASE_POINTS, edges)

(***************************************************************************)
(* The state of each component after construction.                        *)
(***************************************************************************)
SquareConstructed ==
    angle = 0 /\ screenArray = createNewScreen /\ updated = FALSE

CloudConstructed ==
    /\ tessAngle = 0
    /\ points = InitialPoints
    /\ tessScreen = drawPoints(<<>>)
    /\ tessUpdated = FALSE

NoLine ==
    /\ lineArgs = <<0, 0, 0, 0>> /\ lineSeed = 0 /\ linePoints = <<>>
    /\ lineScreen = createNewScreen /\ linePhase = "none"

NoGlyph == brightness = DZero /\ random = 0 /\ glyph = <<>>

OutlineConstructed ==
    outlineAngle = 0 /\ outlineScreen = drawPoints(<<>>) /\ outlineUpdated = FALSE

CubeConstructed ==
    /\ angleX = 0 /\ angleY = 0
    /\ cubeScreen = NewScreen(AsciiCube_CANVAS_SIZE) /\ cubeUpdated = FALSE

\* the angles and the screen of a new <ascii-tessarect>
TessarectFields ==
    /\ angleXY = 0 /\ angleYZ = 0 /\ angleZW = 0 /\ angleWX = 0
    /\ tessarectScreen = NewScreen(AsciiTessarect_CANVAS_SIZE)
    /\ tessarectPhase = "constructed"

TessarectConstructed == tessarectEdges = AsciiTessarect_EDGES /\ TessarectFields

\* a new <intro-matrix-rain>, not connected yet; no timeout is pending
RainConstructed ==
    /\ rainConnected = FALSE /\ rainConnects = 0
    /\ matrixDrops = <<>> /\ spawnTimerId = Undefined /\ dropIdSeed = 0
    /\ cleanupTimers = <<>> /\ changeTimers = <<>>
    /\ timers = {} /\ timerSeed = 0

\* the parts of the intro, constructed
\* a new <main-app>: no MatrixRainAnimation yet; the field initialisers of
\* the class give the values the animation will have when it is constructed
MatrixConstructed ==
    /\ mainConnected = FALSE /\ animation = "none"
    /\ phase = "rain" /\ running = FALSE /\ rafPending = FALSE /\ frames = 0
    /\ tweens = {} /\ tlTime = 0 /\ onDoneCalls = 0

\* a new <root-app>: the field initialisers of App
RingConstructed ==
    /\ ringConnected = FALSE /\ ringUpdated = FALSE
    /\ introPhase = "draw" /\ typedMessage = <<>> /\ backgroundReady = FALSE
    /\ masterTimeline = "undefined" /\ masterTime = 0
    /\ sweepAngle = 0 /\ pulseLevel = 0 /\ ringFillVisible = TRUE
    /\ pulseParticles = {} /\ particleCleanupCalls = {} /\ particleIdSeed = 0

SceneConstructed == MatrixConstructed /\ RingConstructed

IntroConstructed == RainConstructed /\ SceneConstructed

\* no call of calculateRotation / projectTo2D is followed map by map
NoPipe ==
    /\ pipeShape = "none" /\ pipeAngles = <<>> /\ pipeStage = 0
    /\ pipePrev = <<>> /\ pipePoints = <<>>

\* the components modelled further below, constructed; AsciiSquare mounted
OthersConstructed ==
    /\ mounted = "ascii-square" /\ OutlineConstructed
    /\ CubeConstructed /\ TessarectConstructed /\ NoPipe /\ IntroConstructed

NoShape == shape = "AsciiCube" /\ edgeNo = 1 /\ otherNo = 1 /\ edgeEnds = <<>>

(***************************************************************************)
(* AsciiSquare as it runs: the first update, then the interval callback.   *)
(***************************************************************************)
\* willUpdate with a drawFrame that writes onto the screen of the frame
\* before instead of a new one
willUpdateOverdraw(changed, a, screen, seed) ==
    IF changed
    THEN LET kept == Retained(FrameSamples(a))
         IN  ForEachWrite(screen, kept, 1, Len(kept), seed)
    ELSE screen

\* willUpdate(changedProperties): the screen afterwards
willUpdate(changed, a, screen, seed) ==
    IF changed THEN drawFrame(a, seed) ELSE screen

\* the first update cycle: willUpdate sees the initial value of `angle` as
\* a change; firstUpdated then starts the interval
FirstUpdate(seed) ==
    /\ ~updated
    /\ screenArray' = willUpdate(TRUE, angle, screenArray, seed)
    /\ updated' = TRUE
    /\ UNCHANGED <<angle, ticks>>
    /\ UNCHANGED <<cloudVars, lineVars, glyphVars, shapeVars, otherVars>>

\* the interval callback, this.angle = (this.angle + 5) % 360, and the
\* update cycle that the assignment makes Lit run
Tick(seed) ==
    /\ updated
    /\ ticks < MaxTicks
    /\ angle' = (angle + 5) % 360
    /\ screenArray' = willUpdate(angle' # angle, angle', screenArray, seed)
    /\ ticks' = ticks + 1
    /\ UNCHANGED updated
    /\ UNCHANGED <<cloudVars, lineVars, glyphVars, shapeVars, otherVars>>

InitSquare ==
    SquareConstructed /\ ticks = 0 /\ CloudConstructed /\ OthersConstructed /\ NoLine /\ NoGlyph /\ NoShape

NextSquare ==
    \/ \E seed \in 0..MaxSeed : FirstUpdate(seed)
    \/ \E seed \in 0..MaxSeed : Tick(seed)

SpecSquare == InitSquare /\ [][NextSquare]_vars

(***************************************************************************)
(* The point-cloud AsciiTesseract as it runs.                              *)
(***************************************************************************)
\* willUpdate of the point cloud: <<points, screenArray>> afterwards
CloudWillUpdate(changed, a, pts, screen) ==
    IF changed
    THEN LET rotated == RotatedPoints(pts, a) IN <<rotated, drawPoints(rotated)>>
    ELSE <<pts, screen>>

CloudFirstUpdate ==
    /\ ~tessUpdated
    /\ LET after == CloudWillUpdate(TRUE, tessAngle, points, tessScreen)
       IN  points' = after[1] /\ tessScreen' = after[2]
    /\ tessUpdated' = TRUE
    /\ UNCHANGED <<tessAngle, ticks>>
    /\ UNCHANGED <<angle, screenArray, updated, lineVars, glyphVars, shapeVars, otherVars>>

CloudTick ==
    /\ tessUpdated
    /\ ticks < MaxCloudTicks
    /\ tessAngle' = (tessAngle + 5) % 360
    /\ LET after == CloudWillUpdate(tessAngle' # tessAngle, tessAngle', points, tessScreen)
       IN  points' = after[1] /\ tessScreen' = after[2]
    /\ ticks' = ticks + 1
    /\ UNCHANGED tessUpdated
    /\ UNCHANGED <<angle, screenArray, updated, lineVars, glyphVars, shapeVars, otherVars>>

InitCloud == InitSquare

NextCloud == CloudFirstUpdate \/ CloudTick

SpecCloud == InitCloud /\ [][NextCloud]_vars

(***************************************************************************)
(* Reading the shape definitions.                                          *)
(***************************************************************************)
InitShape ==
    /\ SquareConstructed /\ ticks = 0 /\ CloudConstructed /\ OthersConstructed /\ NoLine /\ NoGlyph
    /\ shape \in Shapes
    /\ edgeNo \in 1..Len(ShapeEdges(shape))
    /\ otherNo \in 1..Len(ShapeEdges(shape))
    /\ edgeEnds = <<>>

\* what drawFrame (updateTesseractLines in ThreeTesseract) does with an
\* edge [i, j]: it takes vertex i and vertex j
ReadEdges ==
    /\ edgeEnds = <<>>
    /\ edgeEnds' = <<EdgeEnds(shape, edgeNo), EdgeEnds(shape, otherNo)>>
    /\ UNCHANGED <<shape, edgeNo, otherNo>>
    /\ UNCHANGED <<squareVars, cloudVars, lineVars, glyphVars, otherVars>>

NextShape == ReadEdges

SpecShape == InitShape /\ [][NextShape]_vars

(***************************************************************************)
(* drawLine and the writing of its samples, on enumerated arguments: lines *)
(* around the centre of the screen and across its borders, the lines the   *)
(* testable properties name, and every edge AsciiSquare draws.             *)
(***************************************************************************)
LineAnchors ==
    { <<0, 0>>, <<HALFCANVAS - 1, 0>>, <<HALFCANVAS - 1, HALFCANVAS - 1>>,
      <<-(HALFCANVAS + 1), -(HALFCANVAS + 1)>> }

NearLines ==
    { <<a[1] + i, a[2] + j, a[1] + i + dx, a[2] + j + dy>> :
        a \in LineAnchors, i \in 0..MaxStart, j \in 0..MaxStart,
        dx \in (-MaxDelta)..MaxDelta, dy \in (-MaxDelta)..MaxDelta }

HorizontalLine == <<0, 0, 10, 0>>
FarLine == <<1000, 1000, 2000, 2000>>

\* a line whose accumulated exactY ends just below an integer
AccumulatedLine == <<0, -1, 5, 0>>

\* the angles the interval callback of AsciiSquare produces
DriverAngles == {5 * k : k \in 0..((360 \div 5) - 1)}

\* the arguments of the drawLine calls of drawFrame at angle a
SquareEdgesAt(a) ==
    LET pts == calculateRotation(a)
    IN  { <<pts[i][1], pts[i][2],
            pts[(i % Len(pts)) + 1][1], pts[(i % Len(pts)) + 1][2]>> :
          i \in 1..Len(pts) }

SquareEdges == UNION {SquareEdgesAt(a) : a \in DriverAngles}

LineInputs == NearLines \cup {HorizontalLine, FarLine, AccumulatedLine} \cup SquareEdges

InitLine ==
    /\ SquareConstructed /\ ticks = 0 /\ CloudConstructed /\ OthersConstructed /\ NoGlyph /\ NoShape
    /\ lineArgs \in LineInputs
    /\ lineSeed = 0
    /\ linePoints = <<>>
    /\ lineScreen = createNewScreen
    /\ linePhase = "args"

\* the call drawLine(x0, y0, x1, y1)
CallDrawLine ==
    /\ linePhase = "args"
    /\ linePoints' = drawLine(lineArgs[1], lineArgs[2], lineArgs[3], lineArgs[4])
    /\ linePhase' = "drawn"
    /\ UNCHANGED <<lineArgs, lineSeed, lineScreen>>
    /\ UNCHANGED <<squareVars, cloudVars, glyphVars, shapeVars, otherVars>>

\* the rest of drawFrame on the samples of that line: shift, filter, write
PlotLine(seed) ==
    /\ linePhase = "drawn"
    /\ lineSeed' = seed
    /\ lineScreen' = WriteSamples(linePoints, seed)
    /\ linePhase' = "plotted"
    /\ UNCHANGED <<lineArgs, linePoints>>
    /\ UNCHANGED <<squareVars, cloudVars, glyphVars, shapeVars, otherVars>>

NextLine == CallDrawLine \/ \E seed \in {0, MaxSeed} : PlotLine(seed)

SpecLine == InitLine /\ [][NextLine]_vars

(***************************************************************************)
(* chooseASCII on enumerated brightness values and Math.random() results.  *)
(***************************************************************************)
\* the largest binary64 value below 1, 1 - 2^-53
JustUnderOne == <<0, Limb - 1, Limb - 2^7>>

\* the brightness values the samples of a frame of AsciiSquare carry
FrameBrightness(a) ==
    LET samples == FrameSamples(a) IN {samples[i][3] : i \in 1..Len(samples)}

BrightnessInputs ==
    {DDiv(k, BrightnessSteps) : k \in 0..BrightnessSteps}
        \cup {JustUnderOne} \cup FrameBrightness(0) \cup FrameBrightness(5)

InitGlyph ==
    /\ SquareConstructed /\ ticks = 0 /\ CloudConstructed /\ OthersConstructed /\ NoLine /\ NoShape
    /\ brightness \in BrightnessInputs
    /\ random \in 0..(RandomLevels - 1)
    /\ glyph = <<>>

\* the call chooseASCII(brightness)
CallChooseASCII ==
    /\ glyph = <<>>
    /\ glyph' = <<chooseASCII(brightness, random)>>
    /\ UNCHANGED <<brightness, random>>
    /\ UNCHANGED <<squareVars, cloudVars, lineVars, shapeVars, otherVars>>

NextGlyph == CallChooseASCII

SpecGlyph == InitGlyph /\ [][NextGlyph]_vars

(***************************************************************************)
(* The page with one canvas element on it, AsciiSquare or the outline      *)
(* AsciiTesseract of ascii-tesseract.ts, as that element runs.             *)
(***************************************************************************)
\* willUpdate of ascii-tesseract.ts
OutlineWillUpdate(changed, a, screen) ==
    IF changed THEN OutlineDrawFrame(a) ELSE screen

OutlineFirstUpdate ==
    /\ ~outlineUpdated
    /\ outlineScreen' = OutlineWillUpdate(TRUE, outlineAngle, outlineScreen)
    /\ outlineUpdated' = TRUE
    /\ UNCHANGED <<mounted, outlineAngle>>
    /\ UNCHANGED <<squareVars, cloudVars, lineVars, glyphVars, shapeVars>>
    /\ UNCHANGED <<cubeVars, tessarectVars, pipeVars, introVars>>

\* the interval callback, this.angle = (this.angle + 5) % 360
OutlineTick ==
    /\ outlineUpdated
    /\ ticks < MaxTicks
    /\ outlineAngle' = (outlineAngle + 5) % 360
    /\ outlineScreen' = OutlineWillUpdate(outlineAngle' # outlineAngle,
                                          outlineAngle', outlineScreen)
    /\ ticks' = ticks + 1
    /\ UNCHANGED <<mounted, outlineUpdated, angle, screenArray, updated>>
    /\ UNCHANGED <<cloudVars, lineVars, glyphVars, shapeVars>>
    /\ UNCHANGED <<cubeVars, tessarectVars, pipeVars, introVars>>

NextOutline == OutlineFirstUpdate \/ OutlineTick

\* willUpdate of AsciiCube
CubeWillUpdate(changed, aX, aY, screen, seed) ==
    IF changed THEN AsciiCube_drawFrame(2 * aX, 2 * aY, seed) ELSE screen

CubeFirstUpdate(seed) ==
    /\ ~cubeUpdated
    /\ cubeScreen' = CubeWillUpdate(TRUE, angleX, angleY, cubeScreen, seed)
    /\ cubeUpdated' = TRUE
    /\ UNCHANGED <<angleX, angleY>>
    /\ UNCHANGED <<squareVars, cloudVars, lineVars, glyphVars, shapeVars>>
    /\ UNCHANGED <<outlineVars, tessarectVars, pipeVars, introVars>>

\* the interval callback with angleY computed from the angleX just assigned
CubeTickFromNewX(seed) ==
    /\ cubeUpdated
    /\ ticks < MaxTicks
    /\ angleX' = (angleX + 5) % 360
    /\ angleY' = (angleX' + 5) % 360
    /\ cubeScreen' = CubeWillUpdate(angleX' # angleX \/ angleY' # angleY,
                                    angleX', angleY', cubeScreen, seed)
    /\ ticks' = ticks + 1
    /\ UNCHANGED <<cubeUpdated, angle, screenArray, updated>>
    /\ UNCHANGED <<cloudVars, lineVars, glyphVars, shapeVars>>
    /\ UNCHANGED <<outlineVars, tessarectVars, pipeVars, introVars>>

\* the interval callback: both angles advance by 5 degrees
CubeTick(seed) ==
    /\ cubeUpdated
    /\ ticks < MaxTicks
    /\ angleX' = (angleX + 5) % 360
    /\ angleY' = (angleY + 5) % 360
    /\ cubeScreen' = CubeWillUpdate(angleX' # angleX \/ angleY' # angleY,
                                    angleX', angleY', cubeScreen, seed)
    /\ ticks' = ticks + 1
    /\ UNCHANGED <<cubeUpdated, angle, screenArray, updated>>
    /\ UNCHANGED <<cloudVars, lineVars, glyphVars, shapeVars>>
    /\ UNCHANGED <<outlineVars, tessarectVars, pipeVars, introVars>>

NextCube == CubeFirstUpdate(0) \/ CubeTick(0)

\* the first update cycle of AsciiTessarect: willUpdate calls drawFrame; an
\* exception leaves willUpdate, the update is abandoned and firstUpdated,
\* which would start the interval, is not called
TessarectFirstUpdate(seed) ==
    /\ tessarectPhase = "constructed"
    /\ IF AsciiTessarect_drawFrameThrows(tessarectEdges)
       THEN tessarectPhase' = "threw" /\ UNCHANGED tessarectScreen
       ELSE /\ tessarectPhase' = "updated"
            /\ tessarectScreen' =
                   AsciiTessarect_drawFrame(tessarectAngles, tessarectEdges, seed)
    /\ UNCHANGED <<tessarectAngles, tessarectEdges>>
    /\ UNCHANGED <<squareVars, cloudVars, lineVars, glyphVars, shapeVars>>
    /\ UNCHANGED <<outlineVars, cubeVars, pipeVars, introVars>>

\* the four values of Math.random() in one interval callback, in half
\* degrees: all 0, all 0.5, or 0 and 0.5 in turn
DriverRandoms == { <<0, 0, 0, 0>>, <<1, 1, 1, 1>>, <<0, 1, 0, 1>> }

\* the interval callback with the four values r of Math.random(): the four
\* assignments are followed by one update cycle
TessarectTick(r, seed) ==
    /\ tessarectPhase = "updated"
    /\ ticks < MaxTessarectTicks
    /\ angleXY' = (angleXY + 1 + r[1]) % HalfDegrees
    /\ angleYZ' = (angleYZ + 2 + r[2]) % HalfDegrees
    /\ angleZW' = (angleZW + 3 + r[3]) % HalfDegrees
    /\ angleWX' = (angleWX + r[4]) % HalfDegrees
    /\ IF tessarectAngles' = tessarectAngles
       THEN UNCHANGED <<tessarectPhase, tessarectScreen>>
       ELSE IF AsciiTessarect_drawFrameThrows(tessarectEdges)
       THEN tessarectPhase' = "threw" /\ UNCHANGED tessarectScreen
       ELSE /\ UNCHANGED tessarectPhase
            /\ tessarectScreen' =
                   AsciiTessarect_drawFrame(tessarectAngles', tessarectEdges, seed)
    /\ ticks' = ticks + 1
    /\ UNCHANGED <<tessarectEdges, angle, screenArray, updated>>
    /\ UNCHANGED <<cloudVars, lineVars, glyphVars, shapeVars>>
    /\ UNCHANGED <<outlineVars, cubeVars, pipeVars, introVars>>

NextTessarect ==
    \/ TessarectFirstUpdate(0)
    \/ \E r \in DriverRandoms : TessarectTick(r, 0)

CanvasElements == {"ascii-square", "ascii-tesseract"}

InitCanvas ==
    /\ mounted \in CanvasElements
    /\ SquareConstructed /\ ticks = 0 /\ OutlineConstructed
    /\ CubeConstructed /\ TessarectConstructed /\ NoPipe /\ IntroConstructed
    /\ CloudConstructed /\ NoLine /\ NoGlyph /\ NoShape

NextCanvas ==
    \/ mounted = "ascii-square" /\ NextSquare
    \/ mounted = "ascii-tesseract" /\ NextOutline

SpecCanvas == InitCanvas /\ [][NextCanvas]_vars

(***************************************************************************)
(* The page with one wireframe element on it, AsciiCube or AsciiTessarect, *)
(* as that element runs.                                                   *)
(***************************************************************************)
WireElements == {"ascii-cube", "ascii-tessarect"}

InitWire ==
    /\ mounted \in WireElements
    /\ SquareConstructed /\ ticks = 0 /\ OutlineConstructed
    /\ CubeConstructed /\ TessarectConstructed /\ NoPipe /\ IntroConstructed
    /\ CloudConstructed /\ NoLine /\ NoGlyph /\ NoShape

NextWire ==
    \/ mounted = "ascii-cube" /\ NextCube
    \/ mounted = "ascii-tessarect" /\ NextTessarect

SpecWire == InitWire /\ [][NextWire]_vars

(***************************************************************************)
(* The three elements whose interval callbacks advance angles, each from   *)
(* its construction; the tesseract also from the state that 178          *)
(* callbacks with Math.random() = 0.5 leave, shortly before angleZW passes *)
(* 360 degrees.                                                            *)
(***************************************************************************)
DrivenElements == {"ascii-square", "ascii-cube", "ascii-tessarect"}

\* the angles after n callbacks in which Math.random() returned 0.5
AnglesAfter(n) ==
    <<(2 * n) % HalfDegrees, (3 * n) % HalfDegrees,
      (4 * n) % HalfDegrees, n % HalfDegrees>>

\* the angles after 178 such callbacks: 178, 267, 356 and 89 degrees
LateAngles == AnglesAfter(178)

\* the frame drawFrame() draws at those angles: the rows that are not
\* blank, each with its number, its first column that is not blank and the
\* character codes from there to its last one
LateRows ==
    <<
      <<11, 13,
        <<64, 56, 66, 36, 38, 37, 64, 87, 56, 66, 36, 38, 37, 64, 87, 56,
         66, 36, 38, 37, 64, 87, 56, 66, 36, 38, 37, 64, 87, 56, 66, 36,
         38, 37, 64, 87, 36, 44>> >>,
      <<12, 13,
        <<46, 96, 34, 32, 39, 94, 44, 46, 96, 34, 32, 39, 94, 44, 46, 96,
         34, 32, 39, 94, 44, 46, 96, 34, 32, 39, 94, 44, 46, 96, 34, 32,
         39, 94, 44, 46, 96, 46>> >>,
      <<13, 13,
        <<36, 32, 44, 32, 32, 32, 32, 32, 32, 32, 32, 32, 32, 32, 32, 32,
         32, 32, 32, 32, 32, 32, 32, 32, 32, 32, 32, 32, 32, 32, 32, 32,
         32, 32, 56, 34, 97, 96>> >>,
      <<14, 13,
        <<38, 39, 47, 36, 77, 104, 111, 100, 90, 119, 81, 79, 74, 99, 88,
         110, 116, 106, 120, 47, 49, 40, 91, 43, 45, 93, 59, 108, 105, 32,
         39, 94, 32, 87, 96, 32, 42, 34>> >>,
      <<15, 13,
        <<37, 94, 56, 34, 32, 39, 94, 62, 59, 108, 63, 60, 43, 41, 124, 125,
         102, 114, 92, 116, 122, 89, 117, 76, 48, 85, 119, 112, 98, 104,
         111, 35, 87, 96, 32, 32, 98, 58>> >>,
      <<16, 13,
        <<64, 44, 106, 64, 44, 32, 32, 32, 32, 32, 32, 32, 32, 32, 32, 32,
         32, 32, 32, 32, 32, 32, 32, 32, 32, 32, 32, 32, 32, 32, 32, 37,
         32, 34, 32, 32, 109, 73>> >>,
      <<17, 13,
        <<87, 46, 87, 37, 64, 87, 56, 66, 36, 38, 37, 64, 87, 56, 66, 36,
         38, 37, 64, 87, 56, 66, 36, 38, 37, 64, 87, 56, 66, 36, 38, 32,
         77, 32, 32, 32, 113, 33>> >>,
      <<18, 13,
        <<56, 96, 39, 94, 44, 46, 96, 34, 32, 39, 94, 44, 46, 96, 34, 32,
         39, 94, 44, 46, 96, 34, 32, 39, 94, 44, 46, 96, 34, 32, 39, 39,
         104, 39, 32, 32, 100, 62>> >>,
      <<19, 13,
        <<66, 34, 66, 34, 38, 64, 87, 56, 66, 36, 38, 37, 64, 87, 56, 66,
         36, 38, 37, 64, 87, 56, 66, 36, 38, 37, 64, 87, 56, 39, 37, 94,
         113, 33, 32, 32, 85, 126>> >>,
      <<20, 13,
        <<36, 32, 36, 32, 94, 44, 46, 96, 34, 32, 39, 94, 44, 46, 96, 34,
         32, 39, 94, 44, 46, 96, 34, 32, 39, 94, 44, 46, 96, 94, 64, 44,
         100, 62, 32, 32, 67, 95>> >>,
      <<21, 13,
        <<38, 39, 38, 39, 36, 32, 32, 32, 32, 32, 32, 32, 32, 32, 32, 32,
         32, 32, 32, 32, 32, 32, 32, 32, 32, 32, 32, 32, 64, 44, 87, 46,
         90, 59, 32, 32, 81, 63>> >>,
      <<22, 13,
        <<37, 94, 37, 94, 38, 39, 32, 32, 32, 32, 32, 32, 32, 32, 32, 32,
         32, 32, 32, 32, 32, 32, 32, 32, 32, 32, 32, 32, 87, 46, 56, 96,
         67, 95, 32, 32, 79, 60>> >>,
      <<23, 13,
        <<64, 44, 64, 44, 37, 94, 32, 32, 32, 32, 32, 32, 32, 32, 32, 32,
         32, 32, 32, 32, 32, 32, 32, 32, 32, 32, 32, 32, 56, 96, 66, 34,
         81, 63, 32, 32, 117, 123>> >>,
      <<24, 13,
        <<87, 46, 87, 46, 64, 44, 32, 32, 32, 32, 32, 32, 32, 32, 32, 32,
         32, 32, 32, 32, 32, 32, 32, 32, 32, 32, 32, 32, 66, 34, 36, 32,
         79, 60, 32, 32, 99, 41>> >>,
      <<25, 13,
        <<56, 96, 56, 96, 87, 46, 32, 32, 32, 32, 32, 32, 32, 32, 32, 32,
         32, 32, 32, 32, 32, 32, 32, 32, 32, 32, 32, 32, 36, 32, 38, 39,
         117, 123, 32, 32, 88, 124>> >>,
      <<26, 13,
        <<66, 34, 66, 34, 56, 96, 32, 32, 32, 32, 32, 32, 32, 32, 32, 32,
         32, 32, 32, 32, 32, 32, 32, 32, 32, 32, 32, 32, 38, 39, 37, 94,
         99, 41, 32, 32, 110, 125>> >>,
      <<27, 13,
        <<36, 32, 36, 32, 66, 34, 32, 32, 32, 32, 32, 32, 32, 32, 32, 32,
         32, 32, 32, 32, 32, 32, 32, 32, 32, 32, 32, 32, 37, 94, 64, 44,
         88, 124, 32, 32, 116, 102>> >>,
      <<28, 13,
        <<38, 39, 38, 39, 36, 32, 32, 32, 32, 32, 32, 32, 32, 32, 32, 32,
         32, 32, 32, 32, 32, 32, 32, 32, 32, 32, 32, 32, 64, 44, 87, 46,
         92, 47, 32, 32, 106, 114>> >>,
      <<29, 13,
        <<37, 94, 37, 94, 38, 39, 32, 32, 32, 32, 32, 32, 32, 32, 32, 32,
         32, 32, 32, 32, 32, 32, 32, 32, 32, 32, 32, 32, 87, 46, 56, 96,
         116, 102, 32, 32, 120, 92>> >>,
      <<30, 13,
        <<64, 44, 64, 44, 37, 94, 32, 32, 32, 32, 32, 32, 32, 32, 32, 32,
         32, 32, 32, 32, 32, 32, 32, 32, 32, 32, 32, 32, 56, 96, 66, 34,
         106, 114, 32, 32, 47, 116>> >>,
      <<31, 13,
        <<87, 46, 87, 46, 64, 44, 32, 32, 32, 32, 32, 32, 32, 32, 32, 32,
         32, 32, 32, 32, 32, 32, 32, 32, 32, 32, 32, 32, 66, 34, 36, 32,
         120, 92, 32, 32, 49, 122>> >>,
      <<32, 13,
        <<56, 96, 56, 96, 87, 46, 32, 32, 32, 32, 32, 32, 32, 32, 32, 32,
         32, 32, 32, 32, 32, 32, 32, 32, 32, 32, 32, 32, 36, 32, 38, 39,
         125, 118, 32, 32, 40, 89>> >>,
      <<33, 13,
        <<66, 34, 66, 34, 56, 96, 32, 32, 32, 32, 32, 32, 32, 32, 32, 32,
         32, 32, 32, 32, 32, 32, 32, 32, 32, 32, 32, 32, 38, 39, 37, 94,
         49, 122, 32, 32, 91, 117>> >>,
      <<34, 13,
        <<36, 32, 36, 32, 66, 34, 32, 32, 32, 32, 32, 32, 32, 32, 32, 32,
         32, 32, 32, 32, 32, 32, 32, 32, 32, 32, 32, 32, 37, 94, 64, 44,
         40, 89, 32, 32, 123, 99>> >>,
      <<35, 13,
        <<38, 39, 38, 39, 36, 32, 32, 32, 32, 32, 32, 32, 32, 32, 32, 32,
         32, 32, 32, 32, 32, 32, 32, 32, 32, 32, 32, 32, 64, 44, 87, 46,
         60, 74, 32, 32, 45, 48>> >>,
      <<36, 13,
        <<37, 94, 37, 94, 38, 39, 32, 32, 32, 32, 32, 32, 32, 32, 32, 32,
         32, 32, 32, 32, 32, 32, 32, 32, 32, 32, 32, 32, 87, 46, 56, 96,
         43, 76, 32, 32, 93, 85>> >>,
      <<37, 13,
        <<64, 44, 64, 44, 37, 94, 32, 32, 32, 32, 32, 32, 32, 32, 32, 32,
         32, 32, 32, 32, 32, 32, 32, 32, 32, 32, 32, 32, 56, 96, 66, 34,
         45, 48, 32, 32, 126, 67>> >>,
      <<38, 13,
        <<87, 46, 87, 46, 64, 44, 32, 32, 32, 32, 32, 32, 32, 32, 32, 32,
         32, 32, 32, 32, 32, 32, 32, 32, 32, 32, 32, 32, 66, 34, 36, 32,
         62, 90, 32, 32, 95, 81>> >>,
      <<39, 13,
        <<56, 96, 56, 96, 87, 46, 32, 32, 32, 32, 32, 32, 32, 32, 32, 32,
         32, 32, 32, 32, 32, 32, 32, 32, 32, 32, 32, 32, 36, 32, 38, 39,
         59, 119, 32, 32, 105, 98>> >>,
      <<40, 13,
        <<66, 34, 66, 34, 56, 96, 32, 32, 32, 32, 32, 32, 32, 32, 32, 32,
         32, 32, 32, 32, 32, 32, 32, 32, 32, 32, 32, 32, 38, 39, 37, 94,
         108, 112, 32, 32, 58, 109>> >>,
      <<41, 13,
        <<36, 32, 36, 32, 66, 34, 32, 32, 32, 32, 32, 32, 32, 32, 32, 32,
         32, 32, 32, 32, 32, 32, 32, 32, 32, 32, 32, 32, 37, 94, 64, 44,
         34, 77, 32, 32, 73, 113>> >>,
      <<42, 13,
        <<38, 39, 38, 39, 36, 44, 46, 108, 105, 58, 43, 45, 93, 125, 49,
         114, 92, 116, 122, 89, 117, 76, 48, 90, 119, 112, 77, 104, 36, 44,
         87, 46, 32, 104, 32, 32, 33, 100>> >>,
      <<43, 13,
        <<37, 94, 37, 94, 64, 107, 97, 112, 98, 109, 76, 48, 85, 118, 122,
         120, 47, 102, 40, 91, 123, 45, 93, 59, 108, 105, 32, 39, 94, 116,
         56, 96, 39, 111, 32, 32, 44, 107>> >>,
      <<44, 13,
        <<64, 44, 64, 37, 34, 87, 56, 66, 36, 38, 37, 64, 87, 56, 66, 36,
         38, 37, 64, 87, 56, 66, 36, 38, 37, 64, 87, 56, 66, 36, 38, 37,
         64, 66, 34, 32, 46, 97>> >>,
      <<45, 13,
        <<87, 46, 66, 66, 36, 38, 37, 64, 87, 56, 66, 36, 38, 37, 64, 87,
         56, 66, 36, 38, 37, 64, 87, 56, 66, 36, 38, 37, 64, 87, 64, 94,
         44, 46, 81, 62, 96, 42>> >>,
      <<46, 13,
        <<56, 96, 96, 34, 32, 39, 94, 44, 46, 96, 34, 32, 39, 94, 44, 46,
         96, 34, 32, 39, 94, 44, 46, 96, 34, 32, 39, 94, 44, 46, 96, 32,
         32, 32, 63, 90, 34, 46>> >>,
      <<47, 13,
        <<66, 44, 46, 96, 34, 58, 73, 33, 62, 126, 95, 63, 60, 123, 41, 124,
         125, 102, 114, 92, 116, 122, 89, 117, 99, 48, 85, 67, 81, 98, 109,
         113, 100, 107, 97, 42, 77, 37, 46>> >>,
      <<48, 13,
        <<56, 107, 97, 42, 77, 109, 113, 100, 90, 67, 81, 79, 74, 99, 88,
         110, 118, 106, 120, 47, 102, 40, 91, 123, 41, 93, 126, 95, 63, 58,
         73, 33, 62, 46, 96, 34, 32, 94>> >>,
      <<49, 13,
        <<34>> >>
    >>

LateScreen ==
    [y \in 0..(AsciiTessarect_CANVAS_SIZE - 1) |->
        [x \in 0..(AsciiTessarect_CANVAS_SIZE - 1) |->
            LET rows == {k \in DOMAIN LateRows :
                            /\ LateRows[k][1] = y
                            /\ x >= LateRows[k][2]
                            /\ x < LateRows[k][2] + Len(LateRows[k][3])}
            IN  IF rows = {} THEN Blank
                ELSE LET row == LateRows[CHOOSE k \in rows : TRUE]
                     IN  row[3][x - row[2] + 1]]]

\* <ascii-tessarect> after those callbacks and the update that followed
TessarectLate ==
    /\ tessarectEdges = AsciiTessarect_EDGES
    /\ angleXY = LateAngles[1] /\ angleYZ = LateAngles[2]
    /\ angleZW = LateAngles[3] /\ angleWX = LateAngles[4]
    /\ tessarectScreen = LateScreen
    /\ tessarectPhase = "updated"

InitDriver ==
    /\ mounted \in DrivenElements
    /\ SquareConstructed /\ ticks = 0 /\ OutlineConstructed
    /\ CubeConstructed /\ NoPipe /\ IntroConstructed
    /\ TessarectConstructed \/ (mounted = "ascii-tessarect" /\ TessarectLate)
    /\ CloudConstructed /\ NoLine /\ NoGlyph /\ NoShape

NextDriver ==
    \/ mounted = "ascii-square" /\ (FirstUpdate(0) \/ Tick(0))
    \/ mounted = "ascii-cube" /\ NextCube
    \/ mounted = "ascii-tessarect" /\ NextTessarect

SpecDriver == InitDriver /\ [][NextDriver]_vars

(***************************************************************************)
(* <ascii-tessarect> constructed when the static field EDGES holds the     *)
(* table of the source or that table with one index replaced by one that   *)
(* is not in BASE_POINTS.  Nothing in the class reads EDGES before         *)
(* drawFrame does.                                                         *)
(***************************************************************************)
IndicesOutOfRange == {-1, Len(AsciiTessarect_BASE_POINTS)}

EdgeTables ==
    {AsciiTessarect_EDGES} \cup
    { [AsciiTessarect_EDGES EXCEPT ![n][k] = v] :
        n \in DOMAIN AsciiTessarect_EDGES, k \in 1..2, v \in IndicesOutOfRange }

InitDefinition ==
    /\ tessarectEdges \in EdgeTables
    /\ TessarectFields
    /\ mounted = "ascii-tessarect"
    /\ SquareConstructed /\ ticks = 0 /\ OutlineConstructed /\ CubeConstructed
    /\ NoPipe /\ IntroConstructed /\ CloudConstructed /\ NoLine /\ NoGlyph /\ NoShape

SpecDefinition == InitDefinition /\ [][NextTessarect]_vars

(***************************************************************************)
(* calculateRotation() followed by projectTo2D(), map by map, for the      *)
(* angles the drivers reach: the cube at every multiple of 5 degrees, the  *)
(* tesseract after 4 * k interval callbacks in which Math.random() kept    *)
(* returning one of the combinations of DriverRandoms.                     *)
(***************************************************************************)
\* the maps of AsciiCube: X rotation, Y rotation, Math.round, projection
AsciiCube_map(k, p, a) ==
    IF k = 1 THEN AsciiCube_rotateX(p, a[1])
    ELSE IF k = 2 THEN AsciiCube_rotateY(p, a[2])
    ELSE IF k = 3 THEN RoundAll(p)
    ELSE AsciiCube_project(p)

\* the maps of AsciiTessarect: four rotations, two perspective divisions,
\* FOV and Math.round
AsciiTessarect_map(k, p, a) ==
    IF k = 1 THEN AsciiTessarect_rotateXY(p, a[1])
    ELSE IF k = 2 THEN AsciiTessarect_rotateYZ(p, a[2])
    ELSE IF k = 3 THEN AsciiTessarect_rotateZW(p, a[3])
    ELSE IF k = 4 THEN AsciiTessarect_rotateWX(p, a[4])
    ELSE IF k = 5 THEN AsciiTessarect_foldW(p)
    ELSE IF k = 6 THEN AsciiTessarect_foldZ(p)
    ELSE AsciiTessarect_scaleAndRound(p)

\* the number of maps of calculateRotation, and of both functions
RotationMaps(class) == IF class = "AsciiCube" THEN 3 ELSE 4
LastMap(class) == IF class = "AsciiCube" THEN 4 ELSE 7

CubeAngleInputs == {<<2 * a, 2 * a>> : a \in DriverAngles}

TessarectAngleInputs ==
    { <<(4 * k * (1 + r[1])) % HalfDegrees, (4 * k * (2 + r[2])) % HalfDegrees,
        (4 * k * (3 + r[3])) % HalfDegrees, (4 * k * r[4]) % HalfDegrees>> :
      k \in 0..MaxDriverSteps, r \in DriverRandoms }

InitPipe ==
    /\ \/ pipeShape = "AsciiCube" /\ pipeAngles \in CubeAngleInputs
          /\ pipePoints = AsNumbers(AsciiCube_BASE_POINTS)
       \/ pipeShape = "AsciiTessarect" /\ pipeAngles \in TessarectAngleInputs
          /\ pipePoints = AsNumbers(AsciiTessarect_BASE_POINTS)
    /\ pipeStage = 0
    /\ pipePrev = <<>>
    /\ mounted = "ascii-square" /\ OutlineConstructed
    /\ CubeConstructed /\ TessarectConstructed
    /\ SquareConstructed /\ ticks = 0
    /\ CloudConstructed /\ NoLine /\ NoGlyph /\ NoShape /\ IntroConstructed

\* the next .map(...) of the chain runs over the point list
ApplyMap ==
    /\ pipeStage < LastMap(pipeShape)
    /\ pipeStage' = pipeStage + 1
    /\ pipePrev' = pipePoints
    /\ pipePoints' =
           [i \in 1..Len(pipePoints) |->
               IF pipeShape = "AsciiCube"
               THEN AsciiCube_map(pipeStage', pipePoints[i], pipeAngles)
               ELSE AsciiTessarect_map(pipeStage', pipePoints[i], pipeAngles)] \o <<>>
    /\ UNCHANGED <<pipeShape, pipeAngles>>
    /\ UNCHANGED <<squareVars, cloudVars, lineVars, glyphVars, shapeVars>>
    /\ UNCHANGED <<outlineVars, cubeVars, tessarectVars, introVars>>

NextPipe == ApplyMap

SpecPipe == InitPipe /\ [][NextPipe]_vars

(***************************************************************************)
(* IntroMatrixRain: a chain of spawn timeouts; every drop has a cleanup    *)
(* timeout and, with probability changePossibility, a timeout that changes *)
(* its text.  A pending timeout of the window is a record of its handle,   *)
(* its callback ("spawn", "cleanup" or "change") and the drop the callback *)
(* closes over; it fires once, at any time, unless it is cleared first.    *)
(* The values of sampleNormal and the delays do not enter the bookkeeping  *)
(* and are left out.                                                       *)
(***************************************************************************)
\* randomInRange(1, 3) = Math.floor(1 + Math.random() * 2)
TextLengths == {1, 2}

\* some of the values of randomInRange(0, chars.length - 1)
GlyphIndexes == {0, 1}

\* values randomGlyphCluster(length) can have, as sequences of indexes into
\* MATRIX_CONFIG.chars: the same glyph repeated
GlyphClusters(length) == {[i \in 1..length |-> g] : g \in GlyphIndexes}

\* Map.prototype.keys, .values, .set and .delete on a map held as a function
MapKeys(map) == DOMAIN map
MapValues(map) == {map[k] : k \in DOMAIN map}
MapSet(map, key, value) ==
    [k \in (DOMAIN map) \cup {key} |-> IF k = key THEN value ELSE map[k]]
MapDeleteNothing(map, key) == map
MapDelete(map, key) == [k \in (DOMAIN map) \ {key} |-> map[k]]

\* window.setTimeout(callback, delay) and window.clearTimeout(handle)
SetTimeout(pending, handle, callback, drop) ==
    pending \cup {[handle |-> handle, callback |-> callback, drop |-> drop]}
ClearTimeouts(pending, handles) == {t \in pending : t.handle \notin handles}

\* the ids of the drops in a list
DropIds(drops) == {drops[i].id : i \in DOMAIN drops}

\* connectedCallback(): scheduleNextDrop(140)
RainConnected ==
    /\ ~rainConnected
    /\ rainConnects < MaxConnects
    /\ rainConnected' = TRUE
    /\ rainConnects' = rainConnects + 1
    /\ timerSeed' = timerSeed + 1
    /\ spawnTimerId' = timerSeed'
    /\ timers' = SetTimeout(timers, timerSeed', "spawn", 0)
    /\ UNCHANGED <<matrixDrops, dropIdSeed, cleanupTimers, changeTimers>>
    /\ UNCHANGED <<squareVars, cloudVars, lineVars, glyphVars, shapeVars>>
    /\ UNCHANGED <<outlineVars, cubeVars, tessarectVars, pipeVars, sceneVars>>

\* disconnectedCallback(): stopAnimation()
RainDisconnected ==
    /\ rainConnected
    /\ rainConnected' = FALSE
    /\ timers' = ClearTimeouts(
                     ClearTimeouts(
                         ClearTimeouts(timers,
                                       IF spawnTimerId # Undefined
                                       THEN {spawnTimerId} ELSE {}),
                         MapValues(cleanupTimers)),
                     MapValues(changeTimers))
    /\ spawnTimerId' = Undefined
    /\ cleanupTimers' = <<>>
    /\ changeTimers' = <<>>
    /\ matrixDrops' = <<>>
    /\ UNCHANGED <<dropIdSeed, timerSeed, rainConnects>>
    /\ UNCHANGED <<squareVars, cloudVars, lineVars, glyphVars, shapeVars>>
    /\ UNCHANGED <<outlineVars, cubeVars, tessarectVars, pipeVars, sceneVars>>

\* the spawn timeout t fires: spawnDrop() with the text `text` and with
\* Math.random() <= changePossibility or not, then scheduleNextDrop()
SpawnTimerFires(t, text, change) ==
    /\ t \in timers /\ t.callback = "spawn"
    /\ dropIdSeed < MaxDrops
    /\ dropIdSeed' = dropIdSeed + 1
    /\ matrixDrops' = Append(matrixDrops, [id |-> dropIdSeed', text |-> text])
    /\ cleanupTimers' = MapSet(cleanupTimers, dropIdSeed', timerSeed + 1)
    /\ changeTimers' = IF change THEN MapSet(changeTimers, dropIdSeed', timerSeed + 2)
                       ELSE changeTimers
    /\ timerSeed' = timerSeed + (IF change THEN 3 ELSE 2)
    /\ spawnTimerId' = timerSeed'
    /\ timers' =
           LET fired == timers \ {t}
               cleanup == SetTimeout(fired, timerSeed + 1, "cleanup", dropIdSeed')
               changed == IF change
                          THEN SetTimeout(cleanup, timerSeed + 2, "change", dropIdSeed')
                          ELSE cleanup
           IN  SetTimeout(changed, timerSeed', "spawn", 0)
    /\ UNCHANGED <<rainConnected, rainConnects>>
    /\ UNCHANGED <<squareVars, cloudVars, lineVars, glyphVars, shapeVars>>
    /\ UNCHANGED <<outlineVars, cubeVars, tessarectVars, pipeVars, sceneVars>>

\* removeDrop(dropId): the drop list and the two maps afterwards, and the
\* pending timeouts
removeDrop(dropId) ==
    /\ matrixDrops' = SelectSeq(matrixDrops, LAMBDA drop : drop.id # dropId)
    /\ cleanupTimers' = IF dropId \in MapKeys(cleanupTimers)
                        THEN MapDelete(cleanupTimers, dropId) ELSE cleanupTimers
    /\ changeTimers' = IF dropId \in MapKeys(changeTimers)
                       THEN MapDelete(changeTimers, dropId) ELSE changeTimers

\* the cleanup timeout t fires: removeDrop(dropId)
CleanupTimerFires(t) ==
    /\ t \in timers /\ t.callback = "cleanup"
    /\ removeDrop(t.drop)
    /\ timers' = ClearTimeouts(
                     ClearTimeouts(timers \ {t},
                                   IF t.drop \in MapKeys(cleanupTimers)
                                   THEN {cleanupTimers[t.drop]} ELSE {}),
                     IF t.drop \in MapKeys(changeTimers)
                     THEN {changeTimers[t.drop]} ELSE {})
    /\ UNCHANGED <<rainConnected, rainConnects, spawnTimerId, dropIdSeed, timerSeed>>
    /\ UNCHANGED <<squareVars, cloudVars, lineVars, glyphVars, shapeVars>>
    /\ UNCHANGED <<outlineVars, cubeVars, tessarectVars, pipeVars, sceneVars>>

\* the change timeout t fires: the drop it names, if it is still listed,
\* gets a new text of the same length, which cluster(length) chooses
ChangeTimerFires(t, cluster) ==
    /\ t \in timers /\ t.callback = "change"
    /\ timers' = timers \ {t}
    /\ matrixDrops' =
           [i \in DOMAIN matrixDrops |->
               IF matrixDrops[i].id = t.drop
               THEN [matrixDrops[i] EXCEPT !.text = cluster[Len(matrixDrops[i].text)]]
               ELSE matrixDrops[i]]
    /\ UNCHANGED <<rainConnected, rainConnects, spawnTimerId, dropIdSeed,
                   cleanupTimers, changeTimers, timerSeed>>
    /\ UNCHANGED <<squareVars, cloudVars, lineVars, glyphVars, shapeVars>>
    /\ UNCHANGED <<outlineVars, cubeVars, tessarectVars, pipeVars, sceneVars>>

InitRain ==
    /\ SquareConstructed /\ ticks = 0 /\ CloudConstructed /\ OthersConstructed
    /\ NoLine /\ NoGlyph /\ NoShape

NextRain ==
    \/ RainConnected
    \/ RainDisconnected
    \/ \E t \in timers : \E length \in TextLengths :
           \E text \in GlyphClusters(length) : \E change \in BOOLEAN :
               SpawnTimerFires(t, text, change)
    \/ \E t \in timers : CleanupTimerFires(t)
    \/ \E t \in timers :
           \E g \in GlyphIndexes :
               ChangeTimerFires(t, [n \in TextLengths |-> [i \in 1..n |-> g]])

SpecRain == InitRain /\ [][NextRain]_vars

(***************************************************************************)
(* MatrixRainAnimation and the <main-app> element that owns it.  gsap is   *)
(* modelled by the set of live tweens: a tween or delayed call stays live  *)
(* until it completes or is killed, and only a live one runs callbacks.    *)
(* The timeline of schedulePhases() holds three callbacks in the order of  *)
(* their times: onComplete of the rain-only tween (2 s), onStart of the    *)
(* accelerating tween (5 s) and the call of triggerFlash (9 s).            *)
(***************************************************************************)
MaxFrames == 3

\* the order of the phases in the type of MatrixRainAnimation.phase
Phases == <<"rain", "gathering", "accelerating", "flash", "done">>
PhaseRank(p) == CHOOSE k \in DOMAIN Phases : Phases[k] = p

\* the target object of every tween the animation creates
TweenTarget ==
    [rainOnly |-> "this", gather |-> "this", accel |-> "this",
     gatherChars |-> "circleChars", colour |-> "circleChars",
     flashCall |-> "callback",
     flashIn |-> "flashEl", flashOut |-> "flashEl",
     glowPulse |-> "glowCircle",
     sideGlowIn |-> "sideGlow", sideGlowPulse |-> "sideGlow",
     profileIn |-> "profileEl"]

\* gsap.killTweensOf(target) for each of the targets: the tweens of other
\* targets, and delayed calls, stay live
killTweensOf(live, targets) == {t \in live : TweenTarget[t] \notin targets}

\* when the tweens that triggerFlash()'s first onComplete creates end, in
\* milliseconds after it; the tweens with repeat: -1 never end
TweenEnd ==
    [flashOut |-> 1200, sideGlowIn |-> 1800, profileIn |-> 2000]

\* the tweens schedulePhases() creates
ScheduledTweens == {"rainOnly", "gather", "gatherChars", "accel", "colour", "flashCall"}
TimelineCallbacks == <<"rainOnly", "accel", "flashCall">>

\* <main-app> is connected to the document
MainConnected ==
    /\ ~mainConnected
    /\ mainConnected' = TRUE
    /\ UNCHANGED <<animation, phase, running, rafPending, frames, tweens,
                   tlTime, onDoneCalls>>
    /\ UNCHANGED <<squareVars, cloudVars, lineVars, glyphVars, shapeVars>>
    /\ UNCHANGED <<outlineVars, cubeVars, tessarectVars, pipeVars, rainVars, ringVars>>

\* Main.firstUpdated(): new MatrixRainAnimation(...).start(); start() draws
\* the first frame in tick(), which requests the next one, and schedules
\* the phases
start ==
    /\ mainConnected /\ animation = "none"
    /\ animation' = "started"
    /\ running' = TRUE
    /\ phase' = "rain"
    /\ frames' = 0
    /\ rafPending' = TRUE
    /\ tweens' = ScheduledTweens
    /\ tlTime' = 0
    /\ UNCHANGED <<mainConnected, onDoneCalls>>
    /\ UNCHANGED <<squareVars, cloudVars, lineVars, glyphVars, shapeVars>>
    /\ UNCHANGED <<outlineVars, cubeVars, tessarectVars, pipeVars, rainVars, ringVars>>

\* MatrixRainAnimation.destroy()
destroy ==
    /\ running' = FALSE
    /\ rafPending' = FALSE
    /\ tweens' = killTweensOf(tweens, {"this", "glowCircle", "sideGlow"})

\* Main.disconnectedCallback(): this.animation?.destroy()
MainDisconnected ==
    /\ mainConnected
    /\ mainConnected' = FALSE
    /\ IF animation = "started" THEN destroy
       ELSE UNCHANGED <<running, rafPending, tweens>>
    /\ UNCHANGED <<animation, phase, frames, tlTime, onDoneCalls>>
    /\ UNCHANGED <<squareVars, cloudVars, lineVars, glyphVars, shapeVars>>
    /\ UNCHANGED <<outlineVars, cubeVars, tessarectVars, pipeVars, rainVars, ringVars>>

\* the requested frame fires: tick(now)
tick ==
    /\ rafPending
    /\ frames < MaxFrames
    /\ IF ~running
       THEN rafPending' = FALSE /\ UNCHANGED frames
       ELSE rafPending' = TRUE /\ frames' = frames + 1
    /\ UNCHANGED <<mainConnected, animation, phase, running, tweens, tlTime,
                   onDoneCalls>>
    /\ UNCHANGED <<squareVars, cloudVars, lineVars, glyphVars, shapeVars>>
    /\ UNCHANGED <<outlineVars, cubeVars, tessarectVars, pipeVars, rainVars, ringVars>>

\* triggerFlash(): the phase and the live tweens afterwards
triggerFlash ==
    /\ phase' = "flash"
    /\ tweens' = (tweens \ {"flashCall", "gather", "gatherChars", "accel", "colour"})
                     \cup {"flashIn"}

\* the timeline of schedulePhases() passes the time of its next callback;
\* the callback runs if its tween is still live
TimelinePasses ==
    /\ animation = "started"
    /\ tlTime < Len(TimelineCallbacks)
    /\ tlTime' = tlTime + 1
    /\ LET due == TimelineCallbacks[tlTime']
       IN  IF due \notin tweens THEN UNCHANGED <<phase, tweens>>
           ELSE CASE due = "rainOnly" ->
                        /\ phase' = "gathering"
                        /\ tweens' = tweens \ {"rainOnly"}
                  [] due = "accel" ->
                        /\ phase' = "accelerating"
                        /\ tweens' = tweens \ {"gather"}
                  [] due = "flashCall" -> triggerFlash
    /\ UNCHANGED <<mainConnected, animation, running, rafPending, frames,
                   onDoneCalls>>
    /\ UNCHANGED <<squareVars, cloudVars, lineVars, glyphVars, shapeVars>>
    /\ UNCHANGED <<outlineVars, cubeVars, tessarectVars, pipeVars, rainVars, ringVars>>

\* onComplete of the tween that fades the flash in
FlashInCompletes ==
    /\ "flashIn" \in tweens
    /\ tweens' = (tweens \ {"flashIn"})
                     \cup {"flashOut", "glowPulse", "sideGlowIn", "profileIn"}
    /\ phase' = "done"
    /\ UNCHANGED <<mainConnected, animation, running, rafPending, frames,
                   tlTime, onDoneCalls>>
    /\ UNCHANGED <<squareVars, cloudVars, lineVars, glyphVars, shapeVars>>
    /\ UNCHANGED <<outlineVars, cubeVars, tessarectVars, pipeVars, rainVars, ringVars>>

\* the live tween t that ends first ends; onComplete of the side glow
\* starts its pulse, onComplete of the profile tween invokes onDone
TweenCompletes(t) ==
    /\ t \in tweens \cap DOMAIN TweenEnd
    /\ \A u \in tweens \cap DOMAIN TweenEnd : TweenEnd[t] <= TweenEnd[u]
    /\ tweens' = (tweens \ {t})
                     \cup (IF t = "sideGlowIn" THEN {"sideGlowPulse"} ELSE {})
    /\ onDoneCalls' = IF t = "profileIn" THEN onDoneCalls + 1 ELSE onDoneCalls
    /\ UNCHANGED <<mainConnected, animation, phase, running, rafPending, frames,
                   tlTime>>
    /\ UNCHANGED <<squareVars, cloudVars, lineVars, glyphVars, shapeVars>>
    /\ UNCHANGED <<outlineVars, cubeVars, tessarectVars, pipeVars, rainVars, ringVars>>

InitMatrix ==
    /\ SquareConstructed /\ ticks = 0 /\ CloudConstructed /\ OthersConstructed
    /\ NoLine /\ NoGlyph /\ NoShape

NextMatrix ==
    \/ MainConnected
    \/ start
    \/ MainDisconnected
    \/ tick
    \/ TimelinePasses
    \/ FlashInCompletes
    \/ \E t \in DOMAIN TweenEnd : TweenCompletes(t)

SpecMatrix == InitMatrix /\ [][NextMatrix]_vars

(***************************************************************************)
(* The intro sequence of <root-app> (App).  The master timeline is the     *)
(* list of its steps in the order of their times, as                       *)
(* startIntroRingAnimation() and createPulseTimeline() insert them;        *)
(* callbacks at the same time run in the order of insertion.  The tweens   *)
(* of the stable loop, the shake and the layers change no field that a     *)
(* step reads and are left out.  A burst of particles is followed as one   *)
(* particle.                                                               *)
(***************************************************************************)
DrawUpdates == 3

\* INTRO_CONFIG.typing.message and INTRO_CONFIG.pulse.count
Message == <<"H", "e", "l", "l", "o", ",", " ", "N", "e", "m", "o">>
PulseCount == 4

\* String.prototype.slice(from, to) that also takes the character at `to`
sliceInclusive(string, from, to) == SubSeq(string, from + 1, to + 1)

\* String.prototype.slice(from, to) for 0 <= from <= to <= length
slice(string, from, to) == SubSeq(string, from + 1, to)

\* the order of the phases in the type IntroPhase
IntroPhases == <<"draw", "pulse", "stable", "typing">>

Step(op, n) == [op |-> op, n |-> n]

\* the onUpdate calls of the tween that draws the ring
DrawSteps == [k \in 1..DrawUpdates |-> Step("draw", k)]

\* the steps of pulse idx in createPulseTimeline(), idx from 0
PulseSteps(idx) ==
    LET isLastPulse == idx = PulseCount - 1
    IN  (IF ~isLastPulse THEN <<Step("emit", idx + 1)>> ELSE <<>>)
        \o <<Step("grow", idx + 1)>>
        \o (IF isLastPulse THEN <<Step("flashStart", 0), Step("hideFill", 0)>>
            ELSE <<>>)
        \o <<Step("settle", 0)>>

RECURSIVE PulsesFrom(_)
PulsesFrom(idx) ==
    IF idx >= PulseCount THEN <<>> ELSE PulseSteps(idx) \o PulsesFrom(idx + 1)

createPulseTimeline == PulsesFrom(0)

\* the calls that type the message, idx from 1
TypingSteps == [idx \in 1..Len(Message) |-> Step("type", idx)]

\* the master timeline startIntroRingAnimation() builds
MasterSteps ==
    DrawSteps \o <<Step("pulse", 0)>> \o createPulseTimeline
        \o <<Step("stable", 0), Step("typing", 0)>> \o TypingSteps
        \o <<Step("ready", 0)>>

\* <root-app> is connected to the document
RingConnected ==
    /\ ~ringConnected
    /\ ringConnected' = TRUE
    /\ UNCHANGED <<ringUpdated, introPhase, typedMessage, backgroundReady,
                   masterTimeline, masterTime, sweepAngle, pulseLevel,
                   ringFillVisible, pulseParticles, particleCleanupCalls,
                   particleIdSeed>>
    /\ UNCHANGED <<squareVars, cloudVars, lineVars, glyphVars, shapeVars>>
    /\ UNCHANGED <<outlineVars, cubeVars, tessarectVars, pipeVars, rainVars,
                   matrixVars>>

\* App.firstUpdated(): startIntroRingAnimation()
startIntroRingAnimation ==
    /\ ringConnected /\ ~ringUpdated
    /\ ringUpdated' = TRUE
    /\ sweepAngle' = 0
    /\ pulseLevel' = 0
    /\ introPhase' = "draw"
    /\ typedMessage' = <<>>
    /\ backgroundReady' = FALSE
    /\ ringFillVisible' = TRUE
    /\ pulseParticles' = {} /\ particleCleanupCalls' = {}
    /\ masterTimeline' = "live"
    /\ masterTime' = 0
    /\ UNCHANGED <<ringConnected, particleIdSeed>>
    /\ UNCHANGED <<squareVars, cloudVars, lineVars, glyphVars, shapeVars>>
    /\ UNCHANGED <<outlineVars, cubeVars, tessarectVars, pipeVars, rainVars,
                   matrixVars>>

\* App.disconnectedCallback(): clearPulseParticles(), masterTimeline?.kill()
RingDisconnected ==
    /\ ringConnected
    /\ ringConnected' = FALSE
    /\ pulseParticles' = {} /\ particleCleanupCalls' = {}
    /\ masterTimeline' = "undefined"
    /\ UNCHANGED <<ringUpdated, introPhase, typedMessage, backgroundReady,
                   masterTime, sweepAngle, pulseLevel, ringFillVisible,
                   particleIdSeed>>
    /\ UNCHANGED <<squareVars, cloudVars, lineVars, glyphVars, shapeVars>>
    /\ UNCHANGED <<outlineVars, cubeVars, tessarectVars, pipeVars, rainVars,
                   matrixVars>>

\* the fields a step of the master timeline assigns
RunStep(step) ==
    /\ sweepAngle' = CASE step.op = "draw" -> (360 * step.n) \div DrawUpdates
                       [] step.op = "pulse" -> 360
                       [] OTHER -> sweepAngle
    /\ introPhase' = IF step.op \in {"pulse", "stable", "typing"} THEN step.op
                     ELSE introPhase
    /\ pulseLevel' = CASE step.op = "grow" -> step.n
                       [] step.op = "settle" -> 0
                       [] OTHER -> pulseLevel
    /\ particleIdSeed' = IF step.op = "emit" THEN particleIdSeed + 1
                         ELSE particleIdSeed
    /\ pulseParticles' = CASE step.op = "emit" -> pulseParticles \cup {particleIdSeed'}
                           [] step.op = "flashStart" -> {}
                           [] OTHER -> pulseParticles
    /\ particleCleanupCalls' =
           CASE step.op = "emit" -> particleCleanupCalls \cup {particleIdSeed'}
             [] step.op = "flashStart" -> {}
             [] OTHER -> particleCleanupCalls
    /\ ringFillVisible' = IF step.op = "hideFill" THEN FALSE ELSE ringFillVisible
    /\ typedMessage' = CASE step.op = "typing" -> <<>>
                         [] step.op = "type" -> slice(Message, 0, step.n)
                         [] OTHER -> typedMessage
    /\ backgroundReady' = IF step.op = "ready" THEN TRUE ELSE backgroundReady

\* the master timeline, while it is live, passes the time of its next step
MasterPasses ==
    /\ masterTimeline = "live"
    /\ masterTime < Len(MasterSteps)
    /\ masterTime' = masterTime + 1
    /\ RunStep(MasterSteps[masterTime'])
    /\ UNCHANGED <<ringConnected, ringUpdated, masterTimeline>>
    /\ UNCHANGED <<squareVars, cloudVars, lineVars, glyphVars, shapeVars>>
    /\ UNCHANGED <<outlineVars, cubeVars, tessarectVars, pipeVars, rainVars,
                   matrixVars>>

\* the delayed call of emitPulseParticles() for a particle runs:
\* removePulseParticle(particleId).  The call is due at least 1.25 s after
\* the burst, later than the next burst (0.884 s and 0.728 s after it).
removePulseParticle(particleId) ==
    /\ particleId \in particleCleanupCalls
    /\ particleIdSeed > particleId
    /\ pulseParticles' = pulseParticles \ {particleId}
    /\ particleCleanupCalls' = particleCleanupCalls \ {particleId}
    /\ UNCHANGED <<ringConnected, ringUpdated, introPhase, typedMessage,
                   backgroundReady, masterTimeline, masterTime, sweepAngle,
                   pulseLevel, ringFillVisible, particleIdSeed>>
    /\ UNCHANGED <<squareVars, cloudVars, lineVars, glyphVars, shapeVars>>
    /\ UNCHANGED <<outlineVars, cubeVars, tessarectVars, pipeVars, rainVars,
                   matrixVars>>

InitRing ==
    /\ SquareConstructed /\ ticks = 0 /\ CloudConstructed /\ OthersConstructed
    /\ NoLine /\ NoGlyph /\ NoShape

NextRing ==
    \/ RingConnected
    \/ startIntroRingAnimation
    \/ RingDisconnected
    \/ MasterPasses
    \/ \E particleId \in particleCleanupCalls : removePulseParticle(particleId)

SpecRing == InitRing /\ [][NextRing]_vars

(***************************************************************************)
(* Properties of the shape definitions.                                    *)
(***************************************************************************)
\* the axes on which two vertices differ
AxesOfDifference(p, q) == {a \in DOMAIN p : p[a] # q[a]}

\* p and q differ in sign on exactly one axis and agree on the others
Neighbours(p, q) ==
    /\ Cardinality(AxesOfDifference(p, q)) = 1
    /\ \A a \in AxesOfDifference(p, q) : p[a] = -q[a]

\* C1: in the shape definitions of AsciiCube and AsciiTessarect (and in the
\* topology ThreeTesseract builds) every edge joins two vertices that differ
\* in sign on exactly one axis and agree on all other axes.
C1_EdgesJoinNeighbours ==
    edgeEnds # <<>> => Neighbours(edgeEnds[1][3], edgeEnds[1][4])

\* C2: the cube has exactly 8 vertices and 12 edges, each tesseract 16
\* vertices and 32 edges; the vertices are pairwise distinct and the edges
\* are pairwise distinct as unordered pairs.
C2_ShapeCounts ==
    LET V == ShapeVertices(shape)
        E == ShapeEdges(shape)
    IN  /\ Len(V) = (IF shape = "AsciiCube" THEN 8 ELSE 16)
        /\ Len(E) = (IF shape = "AsciiCube" THEN 12 ELSE 32)
        /\ \A i, j \in DOMAIN V : i # j => V[i] # V[j]
        /\ edgeEnds # <<>> =>
              /\ edgeEnds[1][1] # edgeEnds[1][2]
              /\ edgeNo # otherNo =>
                    {edgeEnds[1][1], edgeEnds[1][2]} # {edgeEnds[2][1], edgeEnds[2][2]}

\* two different edges of the topology ThreeTesseract builds have been read
C2_Witness ==
    edgeEnds # <<>> /\ shape = "ThreeTesseract" /\ edgeNo # otherNo

(***************************************************************************)
(* Properties of the frames of AsciiSquare.                                *)
(***************************************************************************)
\* the characters of band i of DENSITY
BandChars(i) ==
    IF i + 1 \in DOMAIN DENSITY
    THEN {DENSITY[i + 1][k] : k \in DOMAIN DENSITY[i + 1]} ELSE {}

\* the bands a character belongs to
BandsOf(c) == {i \in 0..(Len(DENSITY) - 1) : c \in BandChars(i)}

\* the band of the character of every cell (a blank cell shows the blank
\* of band 0)
BandGrid(screen) ==
    [y \in DOMAIN screen |-> [x \in DOMAIN screen[y] |-> BandsOf(screen[y][x])]]

C4_BaseVerticesKept ==
    points = InitialPoints

\* C5: the frame rendered after 72 ticks of +5 degrees, when the angle is
\* back at 0, equals the frame of tick 0.
C5_FullTurnSameFrame ==
    tessUpdated /\ ticks = 360 \div 5 =>
        tessAngle = 0 /\ tessScreen = drawPoints(InitialPoints)

(***************************************************************************)
(* Properties of drawLine and of the writing of its samples.               *)
(***************************************************************************)
\* the samples drawLine returned
Samples == {linePoints[i] : i \in 1..Len(linePoints)}

\* the x-positions sampled on row y with brightness b
ColumnsOn(y, b) == {s[1] : s \in {t \in Samples : t[2] = y /\ t[3] = b}}

\* C6 as claimed: the line from (0,0) to (10,0) rasterizes to exactly 11
\* distinct x-positions along y = 0, each with brightness 1.0, and no
\* sample is emitted on the ceil row y = 1.
C6_NoCeilSamples ==
    linePhase # "args" /\ lineArgs = HorizontalLine =>
        /\ ColumnsOn(0, DOne) = 0..10
        /\ \A s \in Samples : s[2] = 0 /\ s[3] = DOne

\* C6 as amended: the line from (0,0) to (10,0) rasterizes to exactly 11
\* distinct x-positions along y = 0, each with brightness 1.0; the ceil
\* row y = 1 receives one sample at each of these x-positions, each with
\* brightness exactly 0; no other row receives a sample.
C6_CeilSamplesDark ==
    linePhase # "args" /\ lineArgs = HorizontalLine =>
        /\ ColumnsOn(0, DOne) = 0..10
        /\ ColumnsOn(1, DZero) = 0..10
        /\ \A s \in Samples : \/ s[2] = 0 /\ s[3] = DOne
                              \/ s[2] = 1 /\ s[3] = DZero
        /\ Len(linePoints) = 2 * Cardinality(0..10)

\* drawLine has returned the samples of the line from (0,0) to (10,0)
C6_Witness ==
    linePhase = "drawn" /\ lineArgs = HorizontalLine

\* C7: drawLine emits a sample at every integer coordinate of the dominant
\* axis from the lower to the higher endpoint inclusive, max(|dx|,|dy|) + 1
\* steps of a floor cell and the cell next to it on the secondary axis; the
\* floor cells of consecutive steps differ by at most 1 on the secondary
\* axis; and both endpoints are among the cells sampled, so edges that
\* share corner points form an outline without gaps.
C7_EveryStepSampled ==
    linePhase # "args" =>
        LET x0 == lineArgs[1]
            y0 == lineArgs[2]
            x1 == lineArgs[3]
            y1 == lineArgs[4]
            dom == IF Abs(y1 - y0) > Abs(x1 - x0) THEN 2 ELSE 1
            sec == 3 - dom
            lo == IF lineArgs[dom] <= lineArgs[dom + 2] THEN lineArgs[dom]
                  ELSE lineArgs[dom + 2]
            n == (IF Abs(y1 - y0) > Abs(x1 - x0) THEN Abs(y1 - y0)
                  ELSE Abs(x1 - x0)) + 1
            cells == {<<s[1], s[2]>> : s \in Samples}
        IN  /\ Len(linePoints) = 2 * n
            /\ \A k \in 1..n :
                  /\ linePoints[2 * k - 1][dom] = lo + k - 1
                  /\ linePoints[2 * k][dom] = lo + k - 1
                  /\ linePoints[2 * k][sec] = linePoints[2 * k - 1][sec] + 1
            /\ \A k \in 1..(n - 1) :
                  Abs(linePoints[2 * k + 1][sec] - linePoints[2 * k - 1][sec]) <= 1
            /\ <<x0, y0>> \in cells
            /\ <<x1, y1>> \in cells

\* drawLine has returned the samples of a steep edge of the square at 5
\* degrees that runs from the higher to the lower endpoint
C7_Witness ==
    /\ linePhase = "drawn"
    /\ lineArgs \in SquareEdgesAt(5)
    /\ Abs(lineArgs[4] - lineArgs[2]) > Abs(lineArgs[3] - lineArgs[1])
    /\ lineArgs[2] > lineArgs[4]

\* the samples whose shifted coordinates are the cell (x, y)
SamplesAt(x, y) ==
    {s \in Samples : s[1] + HALFCANVAS = x /\ s[2] + HALFCANVAS = y}

\* the cells the samples fall on after the shift
SampledCells == {<<s[1] + HALFCANVAS, s[2] + HALFCANVAS>> : s \in Samples}

\* C8: a sample is written only if both shifted coordinates lie in
\* [0, CANVAS_SIZE): the grid keeps its CANVAS_SIZE rows of CANVAS_SIZE
\* cells, a cell no sample falls on stays blank, a cell samples fall on
\* shows a character of the band of one of them, and the line from
\* (1000,1000) to (2000,2000) leaves the grid entirely blank.
C8_Clipped ==
    linePhase = "plotted" =>
        LET cells == SampledCells
            inside == {c \in cells : /\ c[1] \in 0..(CANVAS_SIZE - 1)
                                     /\ c[2] \in 0..(CANVAS_SIZE - 1)}
        IN  /\ DOMAIN lineScreen = 0..(CANVAS_SIZE - 1)
            /\ \A y \in DOMAIN lineScreen : DOMAIN lineScreen[y] = 0..(CANVAS_SIZE - 1)
            /\ \A y \in 0..(CANVAS_SIZE - 1), x \in 0..(CANVAS_SIZE - 1) :
                  lineScreen[y][x] # Blank => <<x, y>> \in inside
            /\ \A c \in inside :
                  \E s \in SamplesAt(c[1], c[2]) :
                      lineScreen[c[2]][c[1]] \in BandChars(BandIndex(s[3]))
            /\ lineArgs = FarLine => lineScreen = createNewScreen

\* a line has been plotted of which some samples fell inside the screen
\* and some outside
C8_Witness ==
    /\ linePhase = "plotted"
    /\ \E s \in Samples : InCanvas(<<s[1] + HALFCANVAS, s[2] + HALFCANVAS, s[3]>>)
    /\ \E s \in Samples : ~InCanvas(<<s[1] + HALFCANVAS, s[2] + HALFCANVAS, s[3]>>)

(***************************************************************************)
(* Properties of chooseASCII.                                              *)
(***************************************************************************)
\* a <= b for binary64 values
DLeq(a, b) ==
    \/ a[1] < b[1]
    \/ a[1] = b[1] /\ a[2] < b[2]
    \/ a[1] = b[1] /\ a[2] = b[2] /\ a[3] <= b[3]

\* floor(b * (N - 1)) for the brightness b = k / BrightnessSteps, N = 10,
\* in integer arithmetic
ExactBand(k) == (k * (10 - 1)) \div BrightnessSteps

\* C9: for a brightness b in [0,1], chooseASCII returns a character (not
\* undefined, no exception) of a non-empty band whose index lies in
\* [0, N-1], N = 10, and is floor(b * (N - 1)); brightness 0 selects band 0
\* and brightness 1 selects band N - 1.
C9_BandOfBrightness ==
    glyph # <<>> =>
        /\ Len(DENSITY) = 10
        /\ glyph[1] \notin {Undefined, TypeError}
        /\ BandsOf(glyph[1]) # {}
        /\ \A i \in BandsOf(glyph[1]) : i \in 0..(10 - 1) /\ BandChars(i) # {}
        /\ \A k \in 0..BrightnessSteps :
              brightness = DDiv(k, BrightnessSteps) => BandsOf(glyph[1]) = {ExactBand(k)}
        /\ brightness = DZero => BandsOf(glyph[1]) = {0}
        /\ brightness = DOne => BandsOf(glyph[1]) = {10 - 1}

\* chooseASCII has returned for brightness 1 and the largest random value
C9_Witness ==
    glyph # <<>> /\ brightness = DOne /\ random = RandomLevels - 1

\* the band chosen is not lower than that of any smaller brightness
\* k / BrightnessSteps and not higher than that of any larger one
Monotonic ==
    \A k \in 0..BrightnessSteps :
        LET bk == DDiv(k, BrightnessSteps)
        IN  /\ DLeq(bk, brightness) => \A i \in BandsOf(glyph[1]) : ExactBand(k) <= i
            /\ DLeq(brightness, bk) => \A i \in BandsOf(glyph[1]) : i <= ExactBand(k)

\* C10 as claimed: the band chosen is monotonic in the brightness,
\* brightness 0.0 maps into band 0, and brightness 1.0 or just under it
\* maps into band N - 1.
C10_TopBandJustUnderOne ==
    glyph # <<>> =>
        /\ BandsOf(glyph[1]) # {}
        /\ Monotonic
        /\ brightness = DZero => BandsOf(glyph[1]) = {0}
        /\ brightness \in {DOne, JustUnderOne} => BandsOf(glyph[1]) = {10 - 1}

\* C10 as amended: the band chosen is monotonic in the brightness,
\* brightness 0.0 maps into band 0 and brightness 1.0 into band N - 1; a
\* brightness just under 1.0 maps into band N - 2, as every brightness in
\* [(N-2)/(N-1), 1) does.
C10_TopBandOnlyAtOne ==
    glyph # <<>> =>
        /\ BandsOf(glyph[1]) # {}
        /\ Monotonic
        /\ brightness = DZero => BandsOf(glyph[1]) = {0}
        /\ brightness = DOne => BandsOf(glyph[1]) = {10 - 1}
        /\ brightness = JustUnderOne => BandsOf(glyph[1]) = {10 - 2}
        /\ brightness # DOne /\ DLeq(DDiv(10 - 2, 10 - 1), brightness) =>
              BandsOf(glyph[1]) = {10 - 2}

\* chooseASCII has returned for the largest brightness below 1
C10_Witness ==
    glyph # <<>> /\ brightness = JustUnderOne

(***************************************************************************)
(* Properties of the rendered grid.                                        *)
(***************************************************************************)
\* the characters of the density palette
PaletteChars == UNION {BandChars(i) : i \in 0..(Len(DENSITY) - 1)}

\* screen is n rows of n cells, each the blank or a palette character
FullGrid(screen, n) ==
    /\ DOMAIN screen = 0..(n - 1)
    /\ \A y \in DOMAIN screen :
           /\ DOMAIN screen[y] = 0..(n - 1)
           /\ \A x \in DOMAIN screen[y] : screen[y][x] \in {Blank} \cup PaletteChars

\* C11: after every render the grid is a fully populated CANVAS_SIZE x
\* CANVAS_SIZE rectangle and every cell holds the blank character or a
\* character of the density palette (AsciiSquare and the outline
\* AsciiTesseract alike).
C11_FullPaletteGrid ==
    /\ updated => FullGrid(screenArray, CANVAS_SIZE)
    /\ outlineUpdated => FullGrid(outlineScreen, AsciiTesseract_CANVAS_SIZE)

\* the outline element has rendered a tilted square, all four directions of
\* lineASCII on the screen
C11_Witness ==
    /\ outlineUpdated /\ outlineAngle = 20
    /\ \A k \in DOMAIN lineASCII :
           \E y \in DOMAIN outlineScreen : \E x \in DOMAIN outlineScreen[y] :
               outlineScreen[y][x] = lineASCII[k]

\* the cell of the grid a sample at (x, y) of shape space is written to
CellOf(screen, x, y) == screen[y + HALFCANVAS][x + HALFCANVAS]

\* C12: a sample at (x, y) of shape space is written to
\* grid[y + HALFCANVAS][x + HALFCANVAS]: after a render every rotated vertex
\* (a sample of brightness 1, written last) shows a character of the top
\* band in that cell, and at angle 0 the four corners are the cells
\* [10][10], [10][30], [30][30] and [30][10].
C12_SampleCell ==
    updated =>
        /\ \A i \in DOMAIN basePoints :
               LET p == calculateRotation(angle)[i]
               IN  CellOf(screenArray, p[1], p[2]) \in BandChars(Len(DENSITY) - 1)
        /\ angle = 0 =>
               /\ calculateRotation(angle) =
                      << <<-10, -10>>, <<10, -10>>, <<10, 10>>, <<-10, 10>> >>
               /\ \A cell \in { <<10, 10>>, <<10, 30>>, <<30, 30>>, <<30, 10>> } :
                      screenArray[cell[1]][cell[2]] \in BandChars(Len(DENSITY) - 1)

\* the square has been rendered at angle 0 and its corner (10, -10) stands
\* in row 10, column 30
C12_Witness ==
    /\ updated /\ angle = 0
    /\ calculateRotation(angle)[2] = <<10, -10>>
    /\ screenArray[10][30] \in BandChars(Len(DENSITY) - 1)

(***************************************************************************)
(* The two samples of a step of drawLine.                                  *)
(***************************************************************************)
\* C20: at each step along the dominant axis drawLine emits exactly two
\* samples, the floor cell with brightness 1 - f and the cell one higher on
\* the secondary axis with brightness f, where f in [0,1) is the fractional
\* part of the secondary position; both brightness values lie in [0,1] and
\* sum to 1, and for steep lines the coordinates are transposed back.
C20_FloorAndNext ==
    linePhase # "args" =>
        LET dom == IF Abs(lineArgs[4] - lineArgs[2]) > Abs(lineArgs[3] - lineArgs[1])
                   THEN 2 ELSE 1
            sec == 3 - dom
            lo == IF lineArgs[dom] <= lineArgs[dom + 2] THEN lineArgs[dom]
                  ELSE lineArgs[dom + 2]
            n == Abs(lineArgs[dom + 2] - lineArgs[dom]) + 1
        IN  /\ Len(linePoints) = 2 * n
            /\ \A k \in 1..n :
                   LET floorCell == linePoints[2 * k - 1]
                       nextCell == linePoints[2 * k]
                       f == nextCell[3]
                   IN  /\ floorCell[dom] = lo + k - 1
                       /\ nextCell[dom] = lo + k - 1
                       /\ nextCell[sec] = floorCell[sec] + 1
                       /\ DLeq(DZero, f) /\ DLeq(f, DOne) /\ f # DOne
                       /\ floorCell[3] = DSub(DOne, f)
                       /\ DLeq(DZero, floorCell[3]) /\ DLeq(floorCell[3], DOne)
                       /\ DAdd(floorCell[3], f) = DOne

Max(a, b) == IF a > b THEN a ELSE b

\* every drawLine call for the edges over the projected points pts ran its
\* loop max(|dx|, |dy|) + 1 times, two samples each
LoopsBounded(pts, edges) ==
    \A k \in DOMAIN edges :
        LET p == pts[edges[k][1] + 1]
            q == pts[edges[k][2] + 1]
        IN  Len(drawLine(p[1], p[2], q[1], q[2])) =
                2 * (Max(Abs(q[1] - p[1]), Abs(q[2] - p[2])) + 1)

PlaneRotation(v, a, b, h) ==
    [c \in 1..Len(v) |->
        IF c = a THEN FSub(FMul(v[a], MathCos(h)), FMul(v[b], MathSin(h)))
        ELSE IF c = b THEN FAdd(FMul(v[a], MathSin(h)), FMul(v[b], MathCos(h)))
        ELSE v[c]] \o <<>>

\* the axis pair of rotation map k of a class: XY, YZ, ZW, WX for the
\* tesseract, YZ (about X) and ZX (about Y) for the cube
AxisPair(class, k) ==
    IF class = "AsciiCube" THEN (IF k = 1 THEN <<2, 3>> ELSE <<3, 1>>)
    ELSE IF k = 1 THEN <<1, 2>>
    ELSE IF k = 2 THEN <<2, 3>>
    ELSE IF k = 3 THEN <<3, 4>>
    ELSE <<4, 1>>

\* the rotation maps of a class (the third map of the cube is Math.round)
IsRotationMap(class, k) ==
    IF class = "AsciiCube" THEN k \in 1..2 ELSE k \in 1..4

\* C15: a planar rotation step for the axis pair (a, b) turns every vertex v
\* into the vertex whose coordinates a and b are v[a]*cos - v[b]*sin and
\* v[a]*sin + v[b]*cos and whose other coordinates are those of v.
C15_PlanarStep ==
    IsRotationMap(pipeShape, pipeStage) =>
        LET pair == AxisPair(pipeShape, pipeStage)
        IN  \A i \in DOMAIN pipePoints :
                pipePoints[i] =
                    PlaneRotation(pipePrev[i], pair[1], pair[2], pipeAngles[pipeStage])

\* the ZW step of the tesseract has run at 150 degrees: it changed z and w of
\* a vertex and left its x and y
C15_Witness ==
    /\ pipeShape = "AsciiTessarect" /\ pipeStage = 3 /\ pipeAngles[3] = 300
    /\ \E i \in DOMAIN pipePoints :
           /\ pipePoints[i][3] # pipePrev[i][3]
           /\ pipePoints[i][4] # pipePrev[i][4]
           /\ pipePoints[i][1] = pipePrev[i][1]
           /\ pipePoints[i][2] = pipePrev[i][2]

\* R_WX(R_ZW(R_YZ(R_XY(v)))) for the angles a
ReferenceComposition(v, a) ==
    PlaneRotation(PlaneRotation(PlaneRotation(PlaneRotation(
        v, 1, 2, a[1]), 2, 3, a[2]), 3, 4, a[3]), 4, 1, a[4])

\* R_XY(R_YZ(R_ZW(R_WX(v)))): the same four rotations in the opposite order
OppositeComposition(v, a) ==
    PlaneRotation(PlaneRotation(PlaneRotation(PlaneRotation(
        v, 4, 1, a[4]), 3, 4, a[3]), 2, 3, a[2]), 1, 2, a[1])

\* C16: after the four rotation maps of the tesseract every vertex is
\* R_WX(R_ZW(R_YZ(R_XY(v)))) of its base vertex v, and that list is what
\* calculateRotation() returns for the frame.
C16_SequentialOrder ==
    (pipeShape = "AsciiTessarect" /\ pipeStage = RotationMaps(pipeShape)) =>
        LET base == AsNumbers(AsciiTessarect_BASE_POINTS)
        IN  /\ \A i \in DOMAIN pipePoints :
                   pipePoints[i] = ReferenceComposition(base[i], pipeAngles)
            /\ AsciiTessarect_calculateRotation(pipeAngles) = pipePoints

\* the four rotations have run at angles for which the order matters: the
\* opposite order would have put a vertex elsewhere
C16_Witness ==
    /\ pipeShape = "AsciiTessarect" /\ pipeStage = RotationMaps(pipeShape)
    /\ pipeAngles = <<100, 300, 300, 100>>
    /\ LET base == AsNumbers(AsciiTessarect_BASE_POINTS)
       IN  \E i \in DOMAIN pipePoints :
               pipePoints[i] # OppositeComposition(base[i], pipeAngles)

(***************************************************************************)
(* A fold as the projection is described: every coordinate below k is      *)
(* scaled by C / (C + v[k]) and coordinate k is dropped.                   *)
(***************************************************************************)
Fold(v, k, C) ==
    LET factor == FDiv(FromInt(C), FAdd(v[k], FromInt(C)))
    IN  [c \in 1..(k - 1) |-> FMul(v[c], factor)] \o <<>>

\* the tesseract: the w fold, then the z fold, then FOV and Math.round
TessarectFoldsThenRounds ==
    pipeShape = "AsciiTessarect" =>
        /\ pipeStage = 5 =>
               \A i \in DOMAIN pipePoints :
                   pipePoints[i] = Fold(pipePrev[i], 4, AsciiTessarect_W_OFFSET)
        /\ pipeStage = 6 =>
               \A i \in DOMAIN pipePoints :
                   pipePoints[i] = Fold(pipePrev[i], 3, AsciiTessarect_Z_OFFSET)
        /\ pipeStage = 7 =>
               \A i \in DOMAIN pipePoints :
                   pipePoints[i] = <<FRound(FMul(AsciiTessarect_FOV, pipePrev[i][1])),
                                     FRound(FMul(AsciiTessarect_FOV, pipePrev[i][2]))>>

\* the cube: the vertices projectTo2D receives are the rotated vertices,
\* no coordinate changed by a rounding
CubeUnroundedBeforeProjection ==
    (pipeShape = "AsciiCube" /\ pipeStage = RotationMaps(pipeShape)) =>
        \A i \in DOMAIN pipePoints :
            \A c \in DOMAIN pipePoints[i] :
                FromInt(pipePoints[i][c]) = pipePrev[i][c]

\* C17: the projection folds w, then z, each fold scaling the lower
\* coordinates by C_k / (C_k + coordinate_k) and dropping coordinate_k; the
\* field-of-view factor and the rounding come after the last fold, and no
\* coordinate is rounded before that final step.
C17_RoundedOnlyAtEnd ==
    TessarectFoldsThenRounds /\ CubeUnroundedBeforeProjection

\* C18: the divisor of every perspective division is strictly positive:
\* w + W_OFFSET for the vertices the tesseract's rotation returns,
\* z + Z_OFFSET for the vertices after the w fold, and z + Z_OFFSET for the
\* vertices the cube's rotation returns.
C18_DivisorPositive ==
    /\ (pipeShape = "AsciiTessarect" /\ pipeStage = 4) =>
           \A i \in DOMAIN pipePoints :
               FLess(FZero, FAdd(pipePoints[i][4], FromInt(AsciiTessarect_W_OFFSET)))
    /\ (pipeShape = "AsciiTessarect" /\ pipeStage = 5) =>
           \A i \in DOMAIN pipePoints :
               FLess(FZero, FAdd(pipePoints[i][3], FromInt(AsciiTessarect_Z_OFFSET)))
    /\ (pipeShape = "AsciiCube" /\ pipeStage = 3) =>
           \A i \in DOMAIN pipePoints : pipePoints[i][3] + AsciiCube_Z_OFFSET > 0

\* the w fold has run at [50, 150, 150, 50] degrees: a vertex had a negative
\* w (its divisor was below W_OFFSET) and has a negative z now (its next
\* divisor is below Z_OFFSET)
C18_Witness ==
    /\ pipeShape = "AsciiTessarect" /\ pipeStage = 5
    /\ pipeAngles = <<100, 300, 300, 100>>
    /\ \E i \in DOMAIN pipePoints :
           /\ FLess(pipePrev[i][4], FZero)
           /\ FLess(pipePoints[i][3], FZero)

\* CANVAS_SIZE of the class whose maps are applied
CanvasSizeOf(class) ==
    IF class = "AsciiCube" THEN AsciiCube_CANVAS_SIZE ELSE AsciiTessarect_CANVAS_SIZE

\* C19: every projected vertex (x, y) of the cube and of the tesseract has
\* 0 <= x + HALFCANVAS < CANVAS_SIZE and 0 <= y + HALFCANVAS < CANVAS_SIZE,
\* so the filter of drawFrame drops no vertex sample.
C19_VerticesInsideCanvas ==
    pipeStage = LastMap(pipeShape) =>
        LET n == CanvasSizeOf(pipeShape)
        IN  \A i \in DOMAIN pipePoints :
                /\ 0 <= pipePoints[i][1] + (n \div 2) /\ pipePoints[i][1] + (n \div 2) < n
                /\ 0 <= pipePoints[i][2] + (n \div 2) /\ pipePoints[i][2] + (n \div 2) < n

\* C21: drawLine(p0, p1) and drawLine(p1, p0) return the same sequence of
\* samples, cell by cell and brightness by brightness, and writing either
\* sequence gives the same screen.
C21_Undirected ==
    LET back == drawLine(lineArgs[3], lineArgs[4], lineArgs[1], lineArgs[2])
    IN  /\ linePhase # "args" => linePoints = back
        /\ linePhase = "plotted" => lineScreen = WriteSamples(back, lineSeed)

\* a line from (0, 0) to (-3, 2), whose end points drawLine exchanges, has
\* been drawn and plotted
C21_Witness ==
    /\ linePhase = "plotted"
    /\ lineArgs = <<0, 0, -3, 2>>
    /\ Len(linePoints) = 8
    /\ \E y \in DOMAIN lineScreen : \E x \in DOMAIN lineScreen[y] :
           lineScreen[y][x] # Blank

\* the number of the top band of DENSITY
TopBand == Len(DENSITY) - 1

\* the projected points of the frame on the screen of the cube / tesseract
CubeProjected ==
    AsciiCube_projectTo2D(AsciiCube_calculateRotation(2 * angleX, 2 * angleY))
TessarectProjected ==
    AsciiTessarect_projectTo2D(AsciiTessarect_calculateRotation(tessarectAngles))

\* every vertex of pts that lies on the n x n screen shows a glyph of the
\* top band
VerticesOnTop(screen, pts, n) ==
    \A i \in DOMAIN pts :
        LET x == pts[i][1] + (n \div 2)
            y == pts[i][2] + (n \div 2)
        IN  (x >= 0 /\ x < n /\ y >= 0 /\ y < n) =>
                screen[y][x] \in BandChars(TopBand)

\* an edge sample of a band below the top band targets the cell of a vertex
DimmerSampleOnVertex(pts, edges) ==
    LET samples == EdgeSamples(pts, edges, 1)
    IN  \E i \in DOMAIN pts : \E k \in DOMAIN samples :
            /\ samples[k][1] = pts[i][1] /\ samples[k][2] = pts[i][2]
            /\ BandIndex(samples[k][3]) < TopBand

\* C22: after every render of the cube and of the tesseract, every cell of
\* the screen at a projected vertex position holds a glyph of the top band.
C22_VerticesOnTop ==
    /\ cubeUpdated =>
           VerticesOnTop(cubeScreen, CubeProjected, AsciiCube_CANVAS_SIZE)
    /\ tessarectPhase = "updated" =>
           VerticesOnTop(tessarectScreen, TessarectProjected,
                         AsciiTessarect_CANVAS_SIZE)

\* the cube has drawn a frame in which a dimmer edge sample targeted the cell
\* of a vertex
C22_Witness ==
    /\ cubeUpdated /\ ticks > 0
    /\ DimmerSampleOnVertex(CubeProjected, AsciiCube_EDGES)
    /\ VerticesOnTop(cubeScreen, CubeProjected, AsciiCube_CANVAS_SIZE)

\* sample k is the last of kept that targets its cell
LastOnCell(kept, k) ==
    \A j \in (k + 1)..Len(kept) :
        kept[j][1] # kept[k][1] \/ kept[j][2] # kept[k][2]

\* the screen shows, in every cell that a sample of kept targets, a glyph of
\* the band of the last such sample
LastWriteWins(screen, kept) ==
    \A k \in DOMAIN kept :
        LastOnCell(kept, k) =>
            screen[kept[k][2]][kept[k][1]] \in BandChars(BandIndex(kept[k][3]))

\* C23: after a render each written cell holds a glyph of the band of the
\* last in-bounds sample that targeted it, the samples taken in the order
\* edge 0, edge 1, ..., vertices; earlier samples of the cell have no effect.
C23_LastWriteWins ==
    updated => LastWriteWins(screenArray, Retained(FrameSamples(angle)))

\* a frame of the square in which a cell was targeted by a brighter sample
\* first and by a dimmer one last, and shows a glyph that is in the dimmer
\* band only
C23_Witness ==
    /\ updated /\ ticks > 0
    /\ LET kept == Retained(FrameSamples(angle))
       IN  \E k \in DOMAIN kept : \E j \in DOMAIN kept :
               /\ k < j /\ LastOnCell(kept, j)
               /\ kept[k][1] = kept[j][1] /\ kept[k][2] = kept[j][2]
               /\ BandIndex(kept[k][3]) > BandIndex(kept[j][3])
               /\ screenArray[kept[j][2]][kept[j][1]] \in BandChars(BandIndex(kept[j][3]))
               /\ screenArray[kept[j][2]][kept[j][1]] \notin BandChars(BandIndex(kept[k][3]))

\* a cell of the screen is non-blank only if it is one of the cells
OnlyLatestSamples(screen, cells) ==
    \A y \in DOMAIN screen : \A x \in DOMAIN screen[y] :
        screen[y][x] # Blank => <<x, y>> \in cells

\* the cells the samples of the frame of AsciiSquare at angle a target
SquareCells(a) ==
    LET kept == Retained(FrameSamples(a))
    IN  {<<kept[k][1], kept[k][2]>> : k \in DOMAIN kept}

\* the cells the points of the frame of the outline AsciiTesseract at angle
\* a target
OutlineCells(a) ==
    LET edge == OutlineEdge(calculateRotation(a), 1)
    IN  {<<edge[k][1] + AsciiTesseract_HALFCANVAS,
           edge[k][2] + AsciiTesseract_HALFCANVAS>> : k \in DOMAIN edge}

\* C24: after any sequence of angle updates a cell of the screen is
\* non-blank only if a sample of the frame of the current angle was written
\* to it; nothing of an earlier frame is left.
C24_RebuiltFromBlank ==
    /\ updated => OnlyLatestSamples(screenArray, SquareCells(angle))
    /\ outlineUpdated => OnlyLatestSamples(outlineScreen, OutlineCells(outlineAngle))

\* the square has been redrawn at 5 degrees, and a cell that the frame
\* at 0 degrees filled with a glyph of a band above the two that hold the
\* blank is blank again
C24_Witness ==
    /\ updated /\ ticks = 1 /\ angle = 5
    /\ LET before == Retained(FrameSamples(0))
       IN  \E k \in DOMAIN before :
               /\ LastOnCell(before, k)
               /\ BandIndex(before[k][3]) >= 2
               /\ screenArray[before[k][2]][before[k][1]] = Blank

\* the bits in which the vertex numbers i and j differ
DifferingBits(i, j) == {b \in 0..3 : Bit(i, b) # Bit(j, b)}

\* the pairs (i, i XOR 2^b) with i < i XOR 2^b over the vertex numbers 0..15
HypercubePairs ==
    {p \in (0..15) \X (0..15) :
        p[1] < p[2] /\ Cardinality(DifferingBits(p[1], p[2])) = 1}

\* C25: the edges buildTesseractTopology pushes are exactly the pairs
\* (i, i XOR 2^b) with i < i XOR 2^b for i in 0..15 and b in 0..3, each
\* once, so that every vertex is an end of four edges; an edge that is read
\* names two vertices in range, the smaller first.
C25_XorEdges ==
    LET E == buildTesseractTopology.edges
    IN  /\ {E[k] : k \in DOMAIN E} = HypercubePairs
        /\ Len(E) = Cardinality(HypercubePairs)
        /\ \A v \in 0..15 :
               Cardinality({k \in DOMAIN E : E[k][1] = v \/ E[k][2] = v}) = 4
        /\ (shape = "ThreeTesseract" /\ edgeEnds # <<>>) =>
               /\ edgeEnds[1][1] < edgeEnds[1][2]
               /\ edgeEnds[1][1] \in 0..15 /\ edgeEnds[1][2] \in 0..15
               /\ Cardinality(DifferingBits(edgeEnds[1][1], edgeEnds[1][2])) = 1

\* the edge from vertex 7 to vertex 15, along w, has been read
C25_Witness ==
    /\ shape = "ThreeTesseract" /\ edgeEnds # <<>>
    /\ buildTesseractTopology.edges[edgeNo] = <<7, 15>>
    /\ edgeEnds[1][1] = 7 /\ edgeEnds[1][2] = 15
    /\ DifferingBits(7, 15) = {3}

\* C26: after any number of interval callbacks every rotation angle is in
\* [0, 360) degrees; the angle of the square is a multiple of 5 and the two
\* angles of the cube are equal.
C26_AnglesInRange ==
    /\ angle \in 0..359 /\ angle % 5 = 0
    /\ angleX \in 0..359 /\ angleY \in 0..359 /\ angleX = angleY
    /\ \A i \in DOMAIN tessarectAngles :
           tessarectAngles[i] \in 0..(HalfDegrees - 1)

\* two callbacks after the late start angleZW has passed 360 degrees and is
\* 0 again, while angleXY is at 180 degrees
C26_Witness ==
    /\ tessarectPhase = "updated" /\ ticks = 2
    /\ tessarectAngles = <<360, 540, 0, 180>>

\* C27: in IntroMatrixRain, after any sequence of connections, timeouts and
\* removals, the ids of the drops in matrixDrops are the keys of
\* cleanupTimers, the keys of changeTimers are among them, and the ids in
\* matrixDrops are strictly increasing from the oldest drop to the newest.
C27_DropBookkeeping ==
    /\ DropIds(matrixDrops) = MapKeys(cleanupTimers)
    /\ MapKeys(changeTimers) \subseteq MapKeys(cleanupTimers)
    /\ \A i, j \in DOMAIN matrixDrops :
           i < j => matrixDrops[i].id < matrixDrops[j].id

\* the first drop has been removed by its cleanup timeout while the second,
\* which has a change timeout, is still listed
C27_Witness ==
    /\ dropIdSeed = 2
    /\ DropIds(matrixDrops) = {2}
    /\ MapKeys(cleanupTimers) = {2} /\ MapKeys(changeTimers) = {2}

\* C28: while IntroMatrixRain is disconnected no timeout is pending, the
\* spawn timer id and both maps are cleared and matrixDrops is empty, so no
\* callback can spawn, change or remove a drop before the next connection.
C28_StoppedWhenDisconnected ==
    ~rainConnected =>
        /\ timers = {}
        /\ spawnTimerId = Undefined
        /\ cleanupTimers = <<>> /\ changeTimers = <<>>
        /\ matrixDrops = <<>>

\* the element was disconnected after it had spawned two drops, each with a
\* change timeout, and had scheduled the third spawn
C28_Witness ==
    /\ ~rainConnected /\ rainConnects = 1
    /\ dropIdSeed = 2 /\ timerSeed = 7
    /\ timers = {} /\ matrixDrops = <<>>

\* destroy() of the MatrixRainAnimation has been called
Destroyed == animation = "started" /\ ~running

\* phase stays or moves to a later one of rain, gathering, accelerating,
\* flash, done
PhaseOnlyForward == [][PhaseRank(phase') >= PhaseRank(phase)]_vars

\* after destroy() no frame is requested again
NoFrameAfterDestroy == [][Destroyed => ~rafPending']_vars

\* C29: in MatrixRainAnimation, phase only moves forward through rain,
\* gathering, accelerating, flash, done, and once destroy() has been called
\* no step changes phase, requests a frame or invokes onDone.
C29_ForwardAndQuietAfterDestroy ==
    [][/\ PhaseRank(phase') >= PhaseRank(phase)
       /\ Destroyed => /\ phase' = phase
                       /\ ~rafPending'
                       /\ onDoneCalls' = onDoneCalls]_vars

IntroPhaseRank(p) == CHOOSE k \in DOMAIN IntroPhases : IntroPhases[k] = p

IsPrefix(string, of) == Len(string) <= Len(of) /\ string = SubSeq(of, 1, Len(string))

\* C30: in the intro sequence of App, phase stays or moves to the next of
\* draw, pulse, stable, typing; typedMessage is always a prefix of the
\* configured message and a step that changes it makes it one character
\* longer; and backgroundReady is true only when typedMessage is the full
\* message.
C30_IntroSequence ==
    /\ [](IsPrefix(typedMessage, Message))
    /\ [](backgroundReady => typedMessage = Message)
    /\ [][/\ IntroPhaseRank(introPhase') - IntroPhaseRank(introPhase) \in {0, 1}
          /\ typedMessage' # typedMessage =>
                 typedMessage' = SubSeq(Message, 1, Len(typedMessage) + 1)]_vars

\* the message is typed out and the background has been released
C30_Witness ==
    /\ introPhase = "typing"
    /\ typedMessage = Message
    /\ backgroundReady
    /\ masterTime = Len(MasterSteps)
====
